---------------------------- MODULE Spec2Model ----------------------------
(***************************************************************************)
(* yokto.js: the selector cache (LRUCache, $, the MutationObserver that    *)
(* clears it) and the hash router ($h, $$, the animation-frame queue).     *)
(*                                                                         *)
(* Strings the code inspects character by character (route patterns, the   *)
(* location hash) are sequences of one-character strings.  A JavaScript    *)
(* Map is a sequence of [key, value] records in insertion order.           *)
(***************************************************************************)
EXTENDS Integers, Sequences, FiniteSets, TLC

VARIABLES
    cache,          \* _$.cache : Map selector -> WeakRef(nodes), in insertion order
    max,            \* _$.max
    dom,            \* the document: the number of child-list mutations made so far
    observing,      \* o.observe(document.body, ...) was called when the script loaded
    records,        \* the observer o has undelivered mutation records
    recency,        \* history: the cached selectors, least recently used first
    last,           \* history: the last operation and what it returned
    routes,         \* $h.routes : Map pattern -> {regex, callback, paramNames}
    defaultRoute,   \* $h.defaultRoute
    initialized,    \* $h.initialized
    hashListeners,  \* handleHash listeners subscribed to window 'hashchange'
    readyListeners, \* handleHash listeners subscribed to 'DOMContentLoaded'
    readyState,     \* document.readyState
    hash,           \* location.hash
    hashEvents,     \* 'hashchange' events queued and not yet dispatched
    frames,         \* callbacks handed to n (requestAnimationFrame), oldest first
    readyFns,       \* the application's $$ callbacks subscribed to 'DOMContentLoaded'
    runs,           \* history: how many times each $$ callback has been invoked
    doc,            \* the elements of the document: classList, attributes, style
    wrappers,       \* the identity cache: element -> its vNode wrapper, if any
    made,           \* history: how many wrappers have been constructed
    pending,        \* element -> the attribute records its observer has not received yet
    maxCacheSize,   \* yokto.config.MAX_CACHE_SIZE
    call,           \* one RESTClient call: where it stands in its retry loop
    sock,           \* one WSClient: its socket, retry counter and timers
    mount           \* one $mount call and the slot it renders into

cacheVars == <<cache, max, dom, observing, records, recency>>
routerVars == <<routes, defaultRoute, initialized, hashListeners, readyListeners,
                readyState, hash, hashEvents, frames>>
readyVars == <<readyFns, runs>>
domVars == <<doc>>
wrapVars == <<wrappers, made, pending>>
cfgVars == <<maxCacheSize>>
netVars == <<call, sock>>
appVars == <<cfgVars, netVars, mount>>
coreVars == <<cacheVars, routerVars, readyVars, domVars, wrapVars>>
extVars == <<readyVars, domVars, wrapVars, appVars>>
vars == <<cache, max, dom, observing, records, recency, last, routes, defaultRoute,
          initialized, hashListeners, readyListeners, readyState, hash, hashEvents,
          frames, readyFns, runs, doc, wrappers, made, pending, maxCacheSize,
          call, sock, mount>>

-----------------------------------------------------------------------------
(* Bounds *)

\* capacity of the cache under test (yokto.config.MAX_CACHE_SIZE is 100)
MaxCache == 2
\* child-list mutations of the document in one run
MaxMutations == 1

Selectors == {"a", "b", "c", "d"}
\* the selectors looked up while the document changes
ObservedSelectors == {"a", "b", "c"}

-----------------------------------------------------------------------------
(* JavaScript values *)

Undefined == [kind |-> "undefined"]
Null == [kind |-> "null"]

\* new WeakRef(nodes): nodes is the list of n elements matched in document ver
WeakRef(ver, n) == [kind |-> "WeakRef", ver |-> ver, n |-> n, alive |-> TRUE]

SelectorIndex(q) == CASE q = "a" -> 0 [] q = "b" -> 1 [] q = "c" -> 2 [] OTHER -> 3

\* scope.querySelectorAll(query).length in document d: each mutation changes
\* how many elements each selector matches (0, 1 or 2)
QuerySelectorAll(q, d) == (SelectorIndex(q) + d) % 3

\* the scopes a lookup is made in: the document and one element of it
Scopes == {"$doc", "el"}

\* scope.querySelectorAll(query).length: the element holds every match of the
\* document but the last one in document order
QuerySelectorAllIn(scope, q, d) ==
    IF scope = "$doc" \/ QuerySelectorAll(q, d) = 0
    THEN QuerySelectorAll(q, d)
    ELSE QuerySelectorAll(q, d) - 1

-----------------------------------------------------------------------------
(* Map *)

MapHas(m, k) == \E i \in 1..Len(m) : m[i].key = k

MapGet(m, k) == LET i == CHOOSE j \in 1..Len(m) : m[j].key = k IN m[i].value

MapDelete(m, k) == SelectSeq(m, LAMBDA e : e.key # k)

\* a set that moves an existing key to the end
MapSet_MoveToEnd(m, k, v) ==
    Append(SelectSeq(m, LAMBDA e : e.key # k), [key |-> k, value |-> v])

\* Map.prototype.set: an existing key keeps its place, a new key goes last
MapSet(m, k, v) ==
    IF MapHas(m, k)
    THEN [i \in 1..Len(m) |-> IF m[i].key = k THEN [key |-> k, value |-> v] ELSE m[i]]
    ELSE Append(m, [key |-> k, value |-> v])

MapKeys(m) == {m[i].key : i \in 1..Len(m)}

KeySeq(m) == [i \in 1..Len(m) |-> m[i].key]

-----------------------------------------------------------------------------
(* class LRUCache *)

\* a get that returns the value and leaves the entry where it is
LRUCache_get_NoPromote(c, key) ==
    IF ~MapHas(c, key)
    THEN [cache |-> c, ret |-> Undefined]
    ELSE [cache |-> c, ret |-> MapGet(c, key)]

LRUCache_get(c, key) ==
    IF ~MapHas(c, key)
    THEN [cache |-> c, ret |-> Undefined]
    ELSE LET value == MapGet(c, key)
         IN [cache |-> MapSet(MapDelete(c, key), key, value), ret |-> value]

\* a set that evicts the newest entry instead of the oldest
LRUCache_set_EvictNewest(c, mx, key, value) ==
    LET c1 == IF MapHas(c, key) THEN MapDelete(c, key) ELSE c
        c2 == MapSet(c1, key, value)
    IN IF Len(c2) > mx THEN MapDelete(c2, c2[Len(c2)].key) ELSE c2

\* a set that never evicts
LRUCache_set_NoEvict(c, mx, key, value) ==
    LET c1 == IF MapHas(c, key) THEN MapDelete(c, key) ELSE c
    IN MapSet(c1, key, value)

LRUCache_set(c, mx, key, value) ==
    LET c1 == IF MapHas(c, key) THEN MapDelete(c, key) ELSE c
        c2 == MapSet(c1, key, value)
    IN IF Len(c2) > mx THEN MapDelete(c2, c2[1].key) ELSE c2

LRUCache_delete(c, key) == MapDelete(c, key)

LRUCache_clear(c) == <<>>


-----------------------------------------------------------------------------
(* Strings: sequences of one-character strings *)

Min(S) == CHOOSE x \in S : \A y \in S : x <= y

\* String.prototype.split(sep) for a one-character separator
RECURSIVE Split(_, _)
Split(s, sep) ==
    LET idx == {i \in 1..Len(s) : s[i] = sep}
    IN IF idx = {}
       THEN <<s>>
       ELSE LET i == Min(idx)
            IN <<SubSeq(s, 1, i - 1)>> \o Split(SubSeq(s, i + 1, Len(s)), sep)

\* s.replace(/c/g, repl)
RECURSIVE ReplaceAll(_, _, _)
ReplaceAll(s, c, repl) ==
    IF s = <<>>
    THEN <<>>
    ELSE (IF Head(s) = c THEN repl ELSE <<Head(s)>>) \o ReplaceAll(Tail(s), c, repl)

\* the number of characters other than '/' that s holds from position j on
RECURSIVE SegmentRun(_, _)
SegmentRun(s, j) ==
    IF j > Len(s) \/ s[j] = "/" THEN 0 ELSE 1 + SegmentRun(s, j + 1)

-----------------------------------------------------------------------------
(* $h: route -> regular expression source and parameter names *)

\* the replacement '/([^\/]+)' (in a string literal \/ is /)
ParamGroup == <<"/", "(", "[", "^", "/", "]", "+", ")">>

\* route.replace(/\/:([^\/]+)/g, (_, name) => { paramNames.push(name); return '/([^\/]+)' })
RECURSIVE ReplaceParams(_, _)
ReplaceParams(route, i) ==
    IF i > Len(route)
    THEN [out |-> <<>>, paramNames |-> <<>>]
    ELSE IF /\ route[i] = "/"
            /\ i + 2 <= Len(route)
            /\ route[i + 1] = ":"
            /\ route[i + 2] # "/"
         THEN LET len == SegmentRun(route, i + 2)
                  rest == ReplaceParams(route, i + 2 + len)
              IN [out |-> ParamGroup \o rest.out,
                  paramNames |-> <<SubSeq(route, i + 2, i + 1 + len)>> \o rest.paramNames]
         ELSE LET rest == ReplaceParams(route, i + 1)
              IN [out |-> <<route[i]>> \o rest.out, paramNames |-> rest.paramNames]

\* .replace(/\//g, '\\/')
EscapeSlashes(s) == ReplaceAll(s, "/", <<"\\", "/">>)

\* .replace(/\./g, '\\.')
EscapeDots(s) == ReplaceAll(s, ".", <<"\\", ".">>)

\* .replace(/\*/g, '.*')
ReplaceStars(s) == ReplaceAll(s, "*", <<".", "*">>)

\* a pattern that is anchored at its start only
Anchored_StartOnly(regexStr) == <<"^">> \o regexStr

\* new RegExp(`^${regexStr}$`)
Anchored(regexStr) == <<"^">> \o regexStr \o <<"$">>

\* the value stored by routes.set(route, { regex, callback, paramNames })
CompileRoute(route, callback) ==
    LET p == ReplaceParams(route, 1)
        regexStr == ReplaceStars(EscapeDots(EscapeSlashes(p.out)))
    IN [regex |-> Anchored(regexStr), callback |-> callback, paramNames |-> p.paramNames]

-----------------------------------------------------------------------------
(* RegExp: the expressions that $h builds *)

\* the source '([^\/]+)' of a group that captures one or more characters but '/'
GroupSource == <<"(", "[", "^", "\\", "/", "]", "+", ")">>

\* the source read as a sequence of terms
RECURSIVE Terms(_, _)
Terms(src, i) ==
    IF i > Len(src)
    THEN <<>>
    ELSE IF src[i] = "^" THEN <<[t |-> "start"]>> \o Terms(src, i + 1)
    ELSE IF src[i] = "$" THEN <<[t |-> "end"]>> \o Terms(src, i + 1)
    ELSE IF src[i] = "\\" /\ i < Len(src)
         THEN <<[t |-> "char", c |-> src[i + 1]]>> \o Terms(src, i + 2)
    ELSE IF i + 7 <= Len(src) /\ SubSeq(src, i, i + 7) = GroupSource
         THEN <<[t |-> "group"]>> \o Terms(src, i + 8)
    ELSE IF src[i] = "." /\ i < Len(src) /\ src[i + 1] = "*"
         THEN <<[t |-> "any*"]>> \o Terms(src, i + 2)
    ELSE IF src[i] = "." THEN <<[t |-> "any"]>> \o Terms(src, i + 1)
    ELSE <<[t |-> "char", c |-> src[i]]>> \o Terms(src, i + 1)

NoMatch == [ok |-> FALSE, groups |-> <<>>]

\* backtracking match of terms i.. against s from position j: a repeated term
\* takes as many characters as it can and gives them back one at a time
RECURSIVE MatchTerms(_, _, _, _)
RECURSIVE MatchRepeat(_, _, _, _, _, _)
MatchTerms(terms, i, s, j) ==
    IF i > Len(terms)
    THEN [ok |-> TRUE, groups |-> <<>>]
    ELSE LET term == terms[i]
         IN CASE term.t = "start" ->
                    IF j = 1 THEN MatchTerms(terms, i + 1, s, j) ELSE NoMatch
              [] term.t = "end" ->
                    IF j = Len(s) + 1 THEN MatchTerms(terms, i + 1, s, j) ELSE NoMatch
              [] term.t = "char" ->
                    IF j <= Len(s) /\ s[j] = term.c
                    THEN MatchTerms(terms, i + 1, s, j + 1)
                    ELSE NoMatch
              [] term.t = "any" ->
                    IF j <= Len(s) THEN MatchTerms(terms, i + 1, s, j + 1) ELSE NoMatch
              [] term.t = "group" ->
                    MatchRepeat(terms, i, s, j, SegmentRun(s, j), 1)
              [] term.t = "any*" ->
                    MatchRepeat(terms, i, s, j, Len(s) - j + 1, 0)

MatchRepeat(terms, i, s, j, k, least) ==
    IF k < least
    THEN NoMatch
    ELSE LET r == MatchTerms(terms, i + 1, s, j + k)
         IN IF r.ok
            THEN IF terms[i].t = "group"
                 THEN [ok |-> TRUE, groups |-> <<SubSeq(s, j, j + k - 1)>> \o r.groups]
                 ELSE r
            ELSE MatchRepeat(terms, i, s, j, k - 1, least)

\* path.match(regex), for an expression that begins with ^
StringMatch(s, regex) == MatchTerms(Terms(regex, 1), 1, s, 1)

-----------------------------------------------------------------------------
(* $h: handleHash *)

Str(chars) == [kind |-> "string", chars |-> chars]
Fn(id) == [kind |-> "function", id |-> id]
Num == [kind |-> "number"]

\* an object built by assigning obj[pairs[i][1]] = pairs[i][2] for i = 1, 2, ...
Object(pairs) ==
    [k \in {pairs[i][1] : i \in 1..Len(pairs)} |->
        LET i == CHOOSE j \in 1..Len(pairs) :
                    /\ pairs[j][1] = k
                    /\ \A l \in (j + 1)..Len(pairs) : pairs[l][1] # k
        IN pairs[i][2]]

\* $loc.hash.replace(/^#/, '')
StripHash(h) == IF h # <<>> /\ h[1] = "#" THEN Tail(h) ELSE h

\* new URLSearchParams(queryStr).forEach((value, key) => { query[key] = value })
ParseQuery(queryStr) ==
    LET fields == SelectSeq(Split(queryStr, "&"), LAMBDA f : f # <<>>)
        Pair(f) == LET kv == Split(f, "=")
                   IN <<kv[1], SubSeq(f, Len(kv[1]) + 2, Len(f))>>
    IN Object([i \in 1..Len(fields) |-> Pair(fields[i])])

\* const [path, queryStr] = hash.split('?'), with hash defaulted to '/'
HashParts(locHash) ==
    LET h == StripHash(locHash)
        parts == Split(IF h = <<>> THEN <<"/">> ELSE h, "?")
        queryStr == IF Len(parts) >= 2 THEN parts[2] ELSE <<>>
    IN [path |-> parts[1],
        query |-> IF queryStr # <<>> THEN ParseQuery(queryStr) ELSE <<>>]

\* params[name] = match[i + 1] for each parameter name
Params(paramNames, groups) ==
    Object([i \in 1..Len(paramNames) |-> <<paramNames[i], groups[i]>>])

\* a loop that does not stop at the first route that matches
RECURSIVE FirstMatch_NoBreak(_, _, _)
FirstMatch_NoBreak(rts, i, path) ==
    IF i > Len(rts)
    THEN [matched |-> FALSE]
    ELSE LET match == StringMatch(path, rts[i].value.regex)
             later == FirstMatch_NoBreak(rts, i + 1, path)
         IN IF later.matched \/ ~match.ok
            THEN later
            ELSE [matched |-> TRUE, cb |-> rts[i].value.callback,
                  params |-> Params(rts[i].value.paramNames, match.groups)]

\* for (const [routeKey, {regex, callback, paramNames}] of routes) { ... break }
RECURSIVE FirstMatch(_, _, _)
FirstMatch(rts, i, path) ==
    IF i > Len(rts)
    THEN [matched |-> FALSE]
    ELSE LET match == StringMatch(path, rts[i].value.regex)
         IN IF match.ok
            THEN [matched |-> TRUE, cb |-> rts[i].value.callback,
                  params |-> Params(rts[i].value.paramNames, match.groups)]
            ELSE FirstMatch(rts, i + 1, path)

\* a handleHash without the default route
handleHash_NoDefault(rts, def, locHash) ==
    LET hp == HashParts(locHash)
        m == FirstMatch(rts, 1, hp.path)
    IN IF m.matched
       THEN <<[kind |-> "route", cb |-> m.cb,
               arg |-> [path |-> hp.path, params |-> m.params, query |-> hp.query]]>>
       ELSE <<>>

\* handleHash: the callbacks it hands to n, as {kind, cb, arg}; the default
\* route's callback reads $h.defaultRoute when it runs
handleHash(rts, def, locHash) ==
    LET hp == HashParts(locHash)
        m == FirstMatch(rts, 1, hp.path)
    IN IF m.matched
       THEN <<[kind |-> "route", cb |-> m.cb,
               arg |-> [path |-> hp.path, params |-> m.params, query |-> hp.query]]>>
       ELSE IF def # Undefined
            THEN <<[kind |-> "default",
                    arg |-> [path |-> hp.path, params |-> <<>>, query |-> hp.query]]>>
            ELSE <<>>

\* what count listeners, each running handleHash, hand to n
RECURSIVE Listeners(_, _)
Listeners(count, scheduled) ==
    IF count = 0 THEN <<>> ELSE scheduled \o Listeners(count - 1, scheduled)

-----------------------------------------------------------------------------
(* yokto.config and the module-level construction *)

config == [observeDOM |-> TRUE, MAX_CACHE_SIZE |-> MaxCache]

\* new LRUCache(yokto.config.MAX_CACHE_SIZE || 100)
NewCacheMax == IF config.MAX_CACHE_SIZE # 0 THEN config.MAX_CACHE_SIZE ELSE 100

-----------------------------------------------------------------------------
(* $(query, return_list, useCache) *)

\* what $ hands back for a node list of n elements captured in document ver
Shape(ver, n, return_list) ==
    IF n = 1 /\ ~return_list
    THEN [kind |-> "element", ver |-> ver]
    ELSE [kind |-> "array", ver |-> ver, n |-> n]

\* a selector parser that accepts every string
Malformed_Never(query) == FALSE

\* scope.querySelectorAll(query) throws a SyntaxError for this selector
Malformed(query) == query = "["

\* a reference that keeps its target
Deref_Strong(ref) == ref

\* cachedRef.deref(): undefined once the node list has been reclaimed
Deref(ref) == IF ref.alive THEN ref ELSE Undefined

SelectIn(c, mx, d, scope, query, return_list, useCache) ==
    LET g == IF useCache THEN LRUCache_get(c, query) ELSE [cache |-> c, ret |-> Undefined]
        cachedRef == g.ret
        found == cachedRef.kind = "WeakRef"
        cached == IF found THEN Deref(cachedRef) ELSE Undefined
    IN IF cached # Undefined
       THEN [cache |-> g.cache, hit |-> TRUE, stored |-> FALSE, threw |-> FALSE,
             queries |-> 0, ret |-> Shape(cached.ver, cached.n, return_list)]
       ELSE LET c1 == IF found THEN LRUCache_delete(g.cache, query) ELSE g.cache
                n == QuerySelectorAllIn(scope, query, d)
            IN IF Malformed(query)
               THEN [cache |-> c1, hit |-> FALSE, stored |-> FALSE, threw |-> TRUE,
                     queries |-> 1, ret |-> Undefined]
               ELSE IF n = 0 /\ ~return_list
               THEN [cache |-> c1, hit |-> FALSE, stored |-> FALSE, threw |-> FALSE,
                     queries |-> 1, ret |-> Null]
               ELSE [cache |-> IF useCache
                               THEN LRUCache_set(c1, mx, query, WeakRef(d, n))
                               ELSE c1,
                     hit |-> FALSE, stored |-> useCache, threw |-> FALSE,
                     queries |-> 1, ret |-> Shape(d, n, return_list)]

\* $(query, return_list, useCache): scope = $doc by default
Select(c, mx, d, query, return_list, useCache) ==
    SelectIn(c, mx, d, "$doc", query, return_list, useCache)

-----------------------------------------------------------------------------
(* History *)

Remove(s, k) == SelectSeq(s, LAMBDA x : x # k)

\* the order of last use after an operation: `used` says that key was set or
\* hit, c2 is the cache the operation left
Recency(r, key, used, c2) ==
    LET t == IF used THEN Append(Remove(r, key), key) ELSE r
    IN SelectSeq(t, LAMBDA x : x \in MapKeys(c2))

Op(name, key, hit, stored, c, c2, ret) ==
    [op |-> name, key |-> key, hit |-> hit, stored |-> stored,
     removed |-> MapKeys(c) \ MapKeys(c2), ret |-> ret]

-----------------------------------------------------------------------------
(* $$(fn) *)

\* the functions the application hands to $$
ReadyCallbacks == {"r", "s"}
\* invocations of one $$ callback in one run
MaxRuns == 2

\* a listener list that keeps a function registered twice twice
AddEventListener_Twice(listeners, fn) == Append(listeners, fn)

\* $doc.addEventListener("DOMContentLoaded", fn, { once: true }): a listener
\* that is already registered for the event is not added again
AddEventListener(listeners, fn) ==
    IF \E i \in 1..Len(listeners) : listeners[i] = fn
    THEN listeners
    ELSE Append(listeners, fn)

-----------------------------------------------------------------------------
(* The bulk helpers: addClassesToEl .. setStylesOnEl, $_, $s, $c *)

\* the elements a selector can match: querySelectorAll returns the first n
Elements == {1, 2}
Nodes(n) == [i \in 1..n |-> i]

\* an element without classes, attributes or inline style
NewElement == [classList |-> {}, attrs |-> <<>>, style |-> <<>>]

Arr(items) == [kind |-> "array", items |-> items]
Obj(pairs) == [kind |-> "object", entries |-> pairs]
Index(i) == [kind |-> "number", value |-> i]

\* if (v): undefined and the empty string are falsy
Truthy(v) == v.kind # "undefined" /\ ~(v.kind = "string" /\ v.chars = <<>>)

\* Array.isArray(cls) ? cls : String(cls).split(/\s+/).filter(Boolean)
ClassArray(cls) ==
    IF cls.kind = "array"
    THEN cls.items
    ELSE SelectSeq(Split(cls.chars, " "), LAMBDA c : c # <<>>)

\* a callback handed to n that writes to element el
Write(w, el, arg) == [kind |-> "write", w |-> w, el |-> el, arg |-> arg]

addClassesToEl(el, cls) ==
    IF cls.kind \notin {"string", "array"} THEN <<>>
    ELSE <<Write("classList.add", el, ClassArray(cls))>>

removeClassesFromEl(el, cls) ==
    IF cls.kind \notin {"string", "array"} THEN <<>>
    ELSE <<Write("classList.remove", el, ClassArray(cls))>>

toggleClassesOnEl(el, cls) ==
    IF cls.kind \notin {"string", "array"} THEN <<>>
    ELSE <<Write("classList.toggle", el, ClassArray(cls))>>

setAttrsOnEl(el, attrs) ==
    IF attrs.kind # "object" THEN <<>>
    ELSE <<Write("setAttribute", el, attrs.entries)>>

removeAttrsFromEl(el, attrs) ==
    IF attrs.kind \notin {"string", "array"} THEN <<>>
    ELSE <<Write("removeAttribute", el,
                 IF attrs.kind = "array" THEN attrs.items ELSE <<attrs.chars>>)>>

\* styles.match(/^([^:]+):\s*(.+)$/): the property before the first colon and
\* the value after it, leading blanks dropped while a character is left
StyleMatch(chars) ==
    LET colons == {i \in 1..Len(chars) : chars[i] = ":"}
    IN IF colons = {} THEN [ok |-> FALSE]
       ELSE LET i == Min(colons)
                rest == SubSeq(chars, i + 1, Len(chars))
                blanks == CHOOSE k \in 0..Len(rest) :
                             /\ \A j \in 1..k : rest[j] = " "
                             /\ k < Len(rest) => rest[k + 1] # " "
                skip == IF blanks = Len(rest) THEN blanks - 1 ELSE blanks
            IN IF i = 1 \/ rest = <<>> THEN [ok |-> FALSE]
               ELSE [ok |-> TRUE, prop |-> SubSeq(chars, 1, i - 1),
                     val |-> SubSeq(rest, skip + 1, Len(rest))]

setStylesOnEl(el, styles) ==
    IF styles.kind = "string"
    THEN LET m == StyleMatch(styles.chars)
         IN IF m.ok THEN <<Write("style", el, <<<<m.prop, Str(m.val)>>>>)>> ELSE <<>>
    ELSE IF styles.kind = "object"
    THEN <<Write("style", el, styles.entries)>>
    ELSE <<>>

\* nodes.forEach(el => ...): the callbacks of all the elements, in order
RECURSIVE Flatten(_)
Flatten(seqs) == IF seqs = <<>> THEN <<>> ELSE Head(seqs) \o Flatten(Tail(seqs))

ForEach(nodes, Body(_)) == Flatten([i \in 1..Len(nodes) |-> Body(nodes[i])])

\* if (typeof index === "number") nodes = [nodes[index]]; throws out of range
\* an index that is never looked at
Indexed_All(nodes, index) == [threw |-> FALSE, nodes |-> nodes]

\* if (typeof index === "number") { ...throw...; nodes = [nodes[index]].filter(Boolean) }
Indexed(nodes, index) ==
    IF index.kind # "number" THEN [threw |-> FALSE, nodes |-> nodes]
    ELSE IF index.value < 0 \/ index.value >= Len(nodes)
    THEN [threw |-> TRUE, nodes |-> <<>>]
    ELSE [threw |-> FALSE, nodes |-> <<nodes[index.value + 1]>>]

NoOptions ==
    [addClasses |-> Undefined, removeClasses |-> Undefined, toggleClasses |-> Undefined,
     setAttrs |-> Undefined, removeAttrs |-> Undefined, index |-> Undefined]

\* $_(query, options), with n the number of elements the query matches
Update(n, options0) ==
    LET options == IF options0.kind \in {"string", "array"}
                   THEN [NoOptions EXCEPT !.addClasses = options0]
                   ELSE options0.fields
        ix == Indexed(Nodes(n), options.index)
        Body(el) ==
            (IF Truthy(options.addClasses)
             THEN addClassesToEl(el, options.addClasses) ELSE <<>>)
            \o (IF Truthy(options.removeClasses)
                THEN removeClassesFromEl(el, options.removeClasses) ELSE <<>>)
            \o (IF Truthy(options.toggleClasses)
                THEN toggleClassesOnEl(el, options.toggleClasses) ELSE <<>>)
            \o (IF Truthy(options.setAttrs)
                THEN setAttrsOnEl(el, options.setAttrs) ELSE <<>>)
            \o (IF Truthy(options.removeAttrs)
                THEN removeAttrsFromEl(el, options.removeAttrs) ELSE <<>>)
    IN IF n = 0 THEN [threw |-> FALSE, writes |-> <<>>]
       ELSE IF ix.threw THEN [threw |-> TRUE, writes |-> <<>>]
       ELSE [threw |-> FALSE, writes |-> ForEach(ix.nodes, Body)]

\* $s(query, styles, index)
Style(n, styles, index) ==
    LET ix == Indexed(Nodes(n), index)
        Body(el) == setStylesOnEl(el, styles)
    IN IF n = 0 THEN [threw |-> FALSE, writes |-> <<>>]
       ELSE IF ix.threw THEN [threw |-> TRUE, writes |-> <<>>]
       ELSE [threw |-> FALSE, writes |-> ForEach(ix.nodes, Body)]

\* $c(selector, index).method(a, b) for the class, attribute and style methods
Chain(n, index, method, a, b) ==
    LET ix == Indexed(Nodes(n), index)
        Body(el) ==
            CASE method = "addClass" -> addClassesToEl(el, a)
              [] method = "removeClass" -> removeClassesFromEl(el, a)
              [] method = "toggleClass" -> toggleClassesOnEl(el, a)
              [] method = "attr" ->
                    IF b = Undefined
                    THEN removeAttrsFromEl(el, a)
                    ELSE setAttrsOnEl(el, Obj(<<<<a.chars, b>>>>))
              [] method = "css" -> setStylesOnEl(el, a)
    IN IF ix.threw THEN [threw |-> TRUE, writes |-> <<>>]
       ELSE [threw |-> FALSE, writes |-> ForEach(ix.nodes, Body)]

\* the write a callback makes when its frame comes
RECURSIVE Toggle(_, _)
Toggle(classes, names) ==
    IF names = <<>> THEN classes
    ELSE Toggle(IF Head(names) \in classes
                THEN classes \ {Head(names)}
                ELSE classes \cup {Head(names)}, Tail(names))

Assign(obj, pairs) ==
    [k \in DOMAIN obj \cup {pairs[i][1] : i \in 1..Len(pairs)} |->
        IF k \in {pairs[i][1] : i \in 1..Len(pairs)} THEN Object(pairs)[k] ELSE obj[k]]

Without(obj, names) ==
    [k \in DOMAIN obj \ {names[i] : i \in 1..Len(names)} |-> obj[k]]

ApplyWrite(e, f) ==
    CASE f.w = "classList.add" ->
            [e EXCEPT !.classList = @ \cup {f.arg[i] : i \in 1..Len(f.arg)}]
      [] f.w = "classList.remove" ->
            [e EXCEPT !.classList = @ \ {f.arg[i] : i \in 1..Len(f.arg)}]
      [] f.w = "classList.toggle" -> [e EXCEPT !.classList = Toggle(@, f.arg)]
      [] f.w = "setAttribute" -> [e EXCEPT !.attrs = Assign(@, f.arg)]
      [] f.w = "removeAttribute" -> [e EXCEPT !.attrs = Without(@, f.arg)]
      [] f.w = "style" -> [e EXCEPT !.style = Assign(@, f.arg)]

-----------------------------------------------------------------------------
(* Initial state: the script has been loaded *)

\* no RESTClient call has been made
NoCall == [pc |-> "idle"]

\* no WSClient has been constructed
NoSocket == [pc |-> "none"]

\* $mount has not been called
NoMount == [pc |-> "idle", kids |-> <<>>, attached |-> TRUE, placed |-> FALSE,
            clear |-> TRUE, replace |-> FALSE, calls |-> 0, error |-> "",
            waiting |-> <<>>, overlap |-> FALSE, inserted |-> {}]

Init ==
    /\ cache = <<>>
    /\ max = NewCacheMax
    /\ dom = 0
    /\ readyState \in {"loading", "interactive", "complete"}
    \* document.body exists once parsing is over; while the document is loading
    \* it exists only if the script tag is inside the body
    /\ \E body \in BOOLEAN :
          /\ (readyState # "loading") => body
          /\ observing = (config.observeDOM /\ body)
    /\ records = FALSE
    /\ recency = <<>>
    /\ last = [op |-> "load"]
    /\ routes = Undefined
    /\ defaultRoute = Undefined
    /\ initialized = FALSE
    /\ hashListeners = 0
    /\ readyListeners = 0
    /\ hash = <<>>
    /\ hashEvents = 0
    /\ frames = <<>>
    /\ readyFns = <<>>
    /\ runs = [f \in ReadyCallbacks |-> 0]
    /\ doc = [e \in Elements |-> NewElement]
    /\ wrappers = [e \in Elements |-> Undefined]
    /\ made = 0
    /\ pending = [e \in Elements |-> {}]
    /\ maxCacheSize = config.MAX_CACHE_SIZE
    /\ call = NoCall
    /\ sock = NoSocket
    /\ mount = NoMount

-----------------------------------------------------------------------------
(* Operations on the selector cache *)

\* the application calls $(query, return_list, useCache)
DoSelect(query, return_list, useCache) ==
    LET r == Select(cache, max, dom, query, return_list, useCache)
    IN /\ cache' = r.cache
       /\ recency' = Recency(recency, query, r.hit \/ r.stored, r.cache)
       /\ last' = Op("$", query, r.hit, r.stored, cache, r.cache, r.ret)
                     @@ [useCache |-> useCache, return_list |-> return_list,
                         threw |-> r.threw, queries |-> r.queries,
                         stale |-> /\ useCache
                                   /\ MapHas(cache, query)
                                   /\ ~MapGet(cache, query).alive]
       /\ UNCHANGED <<max, dom, observing, records>>
       /\ UNCHANGED routerVars
       /\ UNCHANGED extVars

\* the application calls $(query, return_list, useCache, scope)
DoSelectIn(scope, query, return_list, useCache) ==
    LET r == SelectIn(cache, max, dom, scope, query, return_list, useCache)
    IN /\ cache' = r.cache
       /\ recency' = Recency(recency, query, r.hit \/ r.stored, r.cache)
       /\ last' = Op("$", query, r.hit, r.stored, cache, r.cache, r.ret)
                     @@ [useCache |-> useCache, return_list |-> return_list,
                         scope |-> scope]
       /\ UNCHANGED <<max, dom, observing, records>>
       /\ UNCHANGED routerVars
       /\ UNCHANGED extVars

\* the application calls yokto._$.get(key)
CacheGet(key) ==
    LET r == LRUCache_get(cache, key)
    IN /\ cache' = r.cache
       /\ recency' = Recency(recency, key, r.ret # Undefined, r.cache)
       /\ last' = Op("get", key, r.ret # Undefined, FALSE, cache, r.cache, r.ret)
       /\ UNCHANGED <<max, dom, observing, records>>
       /\ UNCHANGED routerVars
       /\ UNCHANGED extVars

\* the application calls yokto._$.set(key, new WeakRef([...querySelectorAll(key)]))
CacheSet(key) ==
    LET c2 == LRUCache_set(cache, max, key, WeakRef(dom, QuerySelectorAll(key, dom)))
    IN /\ cache' = c2
       /\ recency' = Recency(recency, key, TRUE, c2)
       /\ last' = Op("set", key, MapHas(cache, key), TRUE, cache, c2, Undefined)
       /\ UNCHANGED <<max, dom, observing, records>>
       /\ UNCHANGED routerVars
       /\ UNCHANGED extVars

\* the application calls yokto._$.delete(key)
CacheDelete(key) ==
    LET c2 == LRUCache_delete(cache, key)
    IN /\ cache' = c2
       /\ recency' = Recency(recency, key, FALSE, c2)
       /\ last' = Op("delete", key, MapHas(cache, key), FALSE, cache, c2, Undefined)
       /\ UNCHANGED <<max, dom, observing, records>>
       /\ UNCHANGED routerVars
       /\ UNCHANGED extVars

\* yokto.clearCache = () => _$.clear()
clearCache(c) == LRUCache_clear(c)

\* the application calls yokto.clearCache()
DoClearCache ==
    LET c2 == clearCache(cache)
    IN /\ cache' = c2
       /\ recency' = Recency(recency, "", FALSE, c2)
       /\ last' = Op("clear", "", FALSE, FALSE, cache, c2, Undefined)
       /\ UNCHANGED <<max, dom, observing, records>>
       /\ UNCHANGED routerVars
       /\ UNCHANGED extVars

\* a script adds or removes a node under document.body; the observer, when
\* attached, queues a record that is delivered in a later microtask
Mutate ==
    /\ dom < MaxMutations
    /\ dom' = dom + 1
    /\ records' = observing
    /\ last' = [op |-> "mutate"]
    /\ UNCHANGED <<cache, max, observing, recency>>
    /\ UNCHANGED routerVars
    /\ UNCHANGED extVars

\* an observer callback that leaves the cache alone
observerCallback_Keep(c) == c

\* new MutationObserver(() => _$.clear())
observerCallback(c) == LRUCache_clear(c)

\* the observer's records are delivered: its callback runs
ObserverCallback ==
    /\ records
    /\ records' = FALSE
    /\ cache' = observerCallback(cache)
    /\ recency' = <<>>
    /\ last' = Op("observer", "", FALSE, FALSE, cache, <<>>, Undefined)
    /\ UNCHANGED <<max, dom, observing>>
    /\ UNCHANGED routerVars
    /\ UNCHANGED extVars

\* the garbage collector reclaims a node list that only the cache refers to
Reclaim(i) ==
    /\ i \in 1..Len(cache)
    /\ cache[i].value.alive
    /\ cache' = [cache EXCEPT ![i].value.alive = FALSE]
    /\ last' = [op |-> "gc"]
    /\ UNCHANGED <<max, dom, observing, records, recency>>
    /\ UNCHANGED routerVars
    /\ UNCHANGED extVars

\* the LRUCache class on its own: every method, called through yokto._$ and $
NextLRU ==
    \/ \E k \in Selectors : CacheGet(k)
    \/ \E k \in Selectors : CacheSet(k)
    \/ \E k \in Selectors : CacheDelete(k)
    \/ DoClearCache
    \/ \E q \in Selectors, rl \in BOOLEAN : DoSelect(q, rl, TRUE)

SpecLRU == Init /\ [][NextLRU]_vars

\* the cache behind $ in a document that changes
NextCache ==
    \/ \E q \in ObservedSelectors, rl \in BOOLEAN, uc \in BOOLEAN : DoSelect(q, rl, uc)
    \/ DoClearCache
    \/ Mutate
    \/ ObserverCallback

SpecCache == Init /\ [][NextCache]_vars

-----------------------------------------------------------------------------
(* The hash router *)

\* frames the animation-frame queue may hold
MaxFrames == 1
\* hashchange events that may be queued
MaxHashEvents == 1

A == <<"/", "a">>
X == <<"/", ":", "x">>
RouterPatterns == {A, X}
\* location.hash: empty, #/a and #/b?k=v
RouterHashes == {<<>>, <<"#", "/", "a">>, <<"#", "/", "b", "?", "k", "=", "v">>}
Callbacks == {"f", "g"}

\* const routes = $h.routes || ($h.routes = new Map())
NewMap(entries) == [kind |-> "Map", entries |-> entries]
RouteList(rts) == IF rts.kind = "undefined" THEN <<>> ELSE rts.entries

\* a validation that looks at the route only
Invalid_RouteOnly(route, callback) == route.kind # "string"

\* typeof route !== 'string' || typeof callback !== 'function'
Invalid(route, callback) == route.kind # "string" \/ callback.kind # "function"

\* an initialization that is not guarded
NeedsInit_Always(init) == TRUE

\* if (!$h.initialized)
NeedsInit(init) == ~init

\* $$(fn) calls fn at once unless the document is still loading
ReadyNow(state) == state # "loading"

\* a queue that runs the newest callback first
RequestFrame_NewestFirst(fs, scheduled) == scheduled \o fs

\* n = requestAnimationFrame: the callbacks run in the order they were handed over
RequestFrame(fs, scheduled) == fs \o scheduled

\* the application calls $h(route, callback)
Route(route, callback) ==
    LET rts == RouteList(routes)
    IN IF route.kind = "function"
       THEN /\ routes' = NewMap(rts)
            /\ defaultRoute' = route
            /\ last' = [op |-> "$h", route |-> route.kind, callback |-> callback.kind,
                        threw |-> FALSE, scheduled |-> <<>>, known |-> FALSE]
            /\ UNCHANGED <<initialized, hashListeners, readyListeners, frames>>
       ELSE IF Invalid(route, callback)
       THEN /\ routes' = NewMap(rts)
            /\ last' = [op |-> "$h", route |-> route.kind, callback |-> callback.kind,
                        threw |-> TRUE, scheduled |-> <<>>, known |-> FALSE]
            /\ UNCHANGED <<defaultRoute, initialized, hashListeners, readyListeners,
                           frames>>
       ELSE LET rts2 == MapSet(rts, route.chars, CompileRoute(route.chars, callback))
                init == NeedsInit(initialized)
                now == init /\ ReadyNow(readyState)
                scheduled == IF now THEN handleHash(rts2, defaultRoute, hash) ELSE <<>>
            IN /\ routes' = NewMap(rts2)
               /\ hashListeners' = IF init THEN hashListeners + 1 ELSE hashListeners
               /\ readyListeners' = IF init /\ ~now THEN readyListeners + 1
                                    ELSE readyListeners
               /\ frames' = RequestFrame(frames, scheduled)
               /\ Len(frames') <= MaxFrames
               /\ initialized' = (initialized \/ init)
               /\ last' = [op |-> "$h", route |-> route.kind, callback |-> callback.kind,
                           threw |-> FALSE, scheduled |-> scheduled,
                           known |-> MapHas(rts, route.chars)]
               /\ UNCHANGED defaultRoute

DoRoute(route, callback) ==
    /\ Route(route, callback)
    /\ UNCHANGED <<readyState, hash, hashEvents>>
    /\ UNCHANGED cacheVars
    /\ UNCHANGED extVars

\* the fragment of the location changes: a hashchange event is queued
Navigate(h) ==
    /\ h # hash
    /\ hashEvents < MaxHashEvents
    /\ hash' = h
    /\ hashEvents' = hashEvents + 1
    /\ last' = [op |-> "navigate"]
    /\ UNCHANGED <<routes, defaultRoute, initialized, hashListeners, readyListeners,
                   readyState, frames>>
    /\ UNCHANGED cacheVars
    /\ UNCHANGED extVars

\* the hashchange event is dispatched to the listeners of window
HashChangeEvent ==
    /\ hashEvents > 0
    /\ hashEvents' = hashEvents - 1
    /\ LET scheduled == Listeners(hashListeners,
                                  handleHash(RouteList(routes), defaultRoute, hash))
       IN /\ frames' = RequestFrame(frames, scheduled)
          /\ last' = [op |-> "hashchange", scheduled |-> scheduled]
    /\ UNCHANGED <<routes, defaultRoute, initialized, hashListeners, readyListeners,
                   readyState, hash>>
    /\ UNCHANGED cacheVars
    /\ UNCHANGED extVars

\* the event, in a run whose frame queue holds at most MaxFrames callbacks
HashChange ==
    /\ HashChangeEvent
    /\ Len(frames') <= MaxFrames

\* $$(fn)
Ready(fn) ==
    IF fn.kind # "function"
    THEN /\ last' = [op |-> "$$", fn |-> fn, threw |-> TRUE]
         /\ UNCHANGED <<readyFns, runs>>
    ELSE IF ReadyNow(readyState)
    THEN /\ runs' = [runs EXCEPT ![fn.id] = @ + 1]
         /\ last' = [op |-> "$$", fn |-> fn, threw |-> FALSE]
         /\ UNCHANGED readyFns
    ELSE /\ readyFns' = AddEventListener(readyFns, fn)
         /\ last' = [op |-> "$$", fn |-> fn, threw |-> FALSE]
         /\ UNCHANGED runs

\* the application calls $$(fn)
DoReady(fn) ==
    /\ fn.kind = "function" => runs[fn.id] < MaxRuns
    /\ Ready(fn)
    /\ UNCHANGED <<routes, defaultRoute, initialized, hashListeners, readyListeners,
                   readyState, hash, hashEvents, frames>>
    /\ UNCHANGED cacheVars
    /\ UNCHANGED domVars
    /\ UNCHANGED wrapVars
    /\ UNCHANGED appVars

\* DOMContentLoaded: the { once: true } listeners run and are removed
DOMContentLoaded ==
    /\ readyState = "loading"
    /\ readyState' = "interactive"
    /\ readyListeners' = 0
    /\ readyFns' = <<>>
    /\ runs' = [f \in ReadyCallbacks |->
                  runs[f] + Len(SelectSeq(readyFns, LAMBDA l : l = Fn(f)))]
    /\ LET scheduled == Listeners(readyListeners,
                                  handleHash(RouteList(routes), defaultRoute, hash))
       IN /\ frames' = RequestFrame(frames, scheduled)
          /\ Len(frames') <= MaxFrames
          /\ last' = [op |-> "ready", scheduled |-> scheduled]
    /\ UNCHANGED <<routes, defaultRoute, initialized, hashListeners, hash, hashEvents>>
    /\ UNCHANGED cacheVars
    /\ UNCHANGED domVars
    /\ UNCHANGED wrapVars
    /\ UNCHANGED appVars

\* a frame callback that calls the route callback at once
FrameClear_Skip(c) == c

\* try { yokto.clearCache(); } catch(e){}
FrameClear(c) == clearCache(c)

\* the next animation frame: the oldest callback handed to n runs; it clears
\* the cache and then calls the route's callback or $h.defaultRoute
Frame ==
    /\ frames # <<>>
    /\ Head(frames).kind # "write"
    /\ frames' = Tail(frames)
    /\ LET f == Head(frames)
           c2 == FrameClear(cache)
       IN /\ cache' = c2
          /\ recency' = Recency(recency, "", FALSE, c2)
          /\ last' = [op |-> "callback", kind |-> f.kind,
                      cb |-> IF f.kind = "route" THEN f.cb ELSE defaultRoute,
                      arg |-> f.arg, removed |-> MapKeys(cache) \ MapKeys(c2)]
    /\ UNCHANGED <<max, dom, observing, records>>
    /\ UNCHANGED <<routes, defaultRoute, initialized, hashListeners, readyListeners,
                   readyState, hash, hashEvents>>
    /\ UNCHANGED extVars

NextRouter ==
    \/ \E p \in RouterPatterns, cb \in Callbacks : DoRoute(Str(p), Fn(cb))
    \/ DoRoute(Fn("d"), Undefined)
    \/ \E bad \in {<<Str(A), Undefined>>, <<Num, Fn("f")>>, <<Num, Undefined>>} :
          DoRoute(bad[1], bad[2])
    \/ \E h \in RouterHashes : Navigate(h)
    \/ HashChange
    \/ DOMContentLoaded
    \/ Frame

SpecRouter == Init /\ [][NextRouter]_vars

\* one route, one default route, and cached lookups between the frames
NextRouteCache ==
    \/ DoRoute(Str(X), Fn("f"))
    \/ DoRoute(Fn("d"), Undefined)
    \/ \E h \in RouterHashes : Navigate(h)
    \/ HashChange
    \/ DOMContentLoaded
    \/ Frame
    \/ \E q \in {"b", "c"} : DoSelect(q, TRUE, TRUE)

SpecRouteCache == Init /\ [][NextRouteCache]_vars

-----------------------------------------------------------------------------
(* Pattern matching on its own: one route, one dispatch *)

U_I == <<"/", "u", "/", ":", "i">>
A_B == <<"/", "a", "/", "b">>
MatchPatterns ==
    {U_I, A_B, A, X,
     <<"/">>,
     <<"/", ":", "x", "/", ":", "y">>,
     <<"/", "a", "/", ":", "x", "/", "b">>,
     <<"/", "a", ".", "b">>,
     <<"/", ":", "x", ".", "y">>,
     <<"/", "a", "/", "*">>,
     <<"/", "*", "/", ":", "x">>}

H_U_42 == <<"#", "/", "u", "/", "4", "2">>
H_A_B_C == <<"#", "/", "a", "/", "b", "/", "c">>
MatchHashes ==
    {H_U_42, H_A_B_C,
     <<>>,
     <<"#", "/">>,
     <<"#", "/", "u">>,
     <<"#", "/", "u", "/">>,
     <<"#", "/", "u", "/", "4", "2", "/">>,
     <<"#", "/", "u", "/", "4", "/", "2">>,
     <<"#", "/", "a">>,
     <<"#", "/", "a", "/">>,
     <<"#", "/", "a", "/", "b">>,
     <<"#", "/", "a", "/", "b", "?", "k", "=", "v">>,
     <<"#", "/", "a", "/", "c", "/", "b">>,
     <<"#", "/", "a", "/", "/", "b">>,
     <<"#", "/", "a", ".", "b">>,
     <<"#", "/", "a", "x", "b">>,
     <<"#", "x", "/", "a", "/", "b">>}

\* $h(route, f) on an empty registry, then handleHash with location.hash = h
MatchRoute(route, h) ==
    /\ last' = [op |-> "match", route |-> route, hash |-> h,
                scheduled |-> handleHash(
                    MapSet(<<>>, route, CompileRoute(route, Fn("f"))), Undefined, h)]
    /\ UNCHANGED cacheVars
    /\ UNCHANGED routerVars
    /\ UNCHANGED extVars

NextMatch == \E route \in MatchPatterns, h \in MatchHashes : MatchRoute(route, h)

SpecMatch == Init /\ [][NextMatch]_vars

-----------------------------------------------------------------------------
(* Properties of the selector cache *)

CachedLookup == last.op = "$" /\ last.useCache

\* C1: when a set() of a new key finds the cache full, exactly one entry is
\* removed, and it is the least recently used one (the entry whose last set()
\* or hit get() is the oldest); the new key stays.
C1_LRUEviction ==
    [][(/\ last'.op \in {"set", "$"}
        /\ last'.stored
        /\ ~MapHas(cache, last'.key)
        /\ Len(cache) + 1 > max)
       => (/\ MapKeys(cache') = (MapKeys(cache) \cup {last'.key}) \ {recency[1]}
           /\ Len(cache') = max
           /\ last'.removed = {recency[1]})]_vars

\* capacity 2: set(a), set(b), set(c) has evicted a and left b, c
C1_Witness ==
    /\ last.op = "set" /\ last.key = "c" /\ last.removed = {"a"}
    /\ KeySeq(cache) = <<"b", "c">>

\* C2: the cache never holds more than max entries, and a set() of a key that
\* is already present removes no other key.
C2_CapacityBound ==
    /\ Len(cache) <= max
    /\ Cardinality(MapKeys(cache)) = Len(cache)
    /\ (last.op = "set" /\ last.hit) => (last.removed = {} /\ MapHas(cache, last.key))

\* a full cache in which a present key has just been set again
C2_Witness == last.op = "set" /\ last.hit /\ Len(cache) = max /\ max > 1

\* C3: a get(k) that hits returns the value and moves k behind every other
\* entry, whose order does not change, so k is the last of them to be evicted;
\* a get(k) that misses returns undefined and leaves the cache as it was.
C3_PromotionOnHit ==
    [][(last'.op = "get" \/ (last'.op = "$" /\ last'.useCache))
       => IF last'.hit
          THEN /\ MapHas(cache, last'.key)
               /\ KeySeq(cache') =
                      Append(Remove(KeySeq(cache), last'.key), last'.key)
               /\ MapGet(cache', last'.key) = MapGet(cache, last'.key)
               /\ last'.op = "get" => last'.ret = MapGet(cache, last'.key)
          ELSE /\ last'.op = "get" => (cache' = cache /\ last'.ret = Undefined)
               /\ ~MapHas(cache, last'.key)]_vars

\* capacity 2: set(a), set(b), get(a) has moved a behind b
C3_Witness ==
    /\ last.op = "get" /\ last.hit /\ last.key = "a"
    /\ KeySeq(cache) = <<"b", "a">>

\* C4 as claimed: a cached lookup never returns a node list captured before
\* the latest mutation of the document, whether or not the observer is
\* attached and whether or not its callback has run.
C4_AlwaysMiss == (CachedLookup /\ last.hit) => last.ret.ver = dom

\* C4 amended: when the observer is attached and its records have been
\* delivered, the cache holds no node list captured before the latest
\* mutation, so a cached lookup of a selector cached before it is a miss.
C4_MissAfterDelivery ==
    (observing /\ ~records)
        => /\ \A i \in 1..Len(cache) : cache[i].value.ver = dom
           /\ (CachedLookup /\ last.hit) => last.ret.ver = dom

\* the callback has just emptied a cache filled before the mutation
C4_Witness == last.op = "observer" /\ last.removed # {} /\ dom > 0 /\ cache = <<>>

-----------------------------------------------------------------------------
(* Properties of the hash router *)

\* C5: whenever a route callback or the default callback starts, the selector
\* cache is empty: the frame callback clears it first, whatever was cached
\* since the dispatch.
C5_CacheEmptyAtCallback == (last.op = "callback") => (cache = <<>> /\ recency = <<>>)

\* a callback has started in a frame that found entries in the cache
C5_Witness == last.op = "callback" /\ last.removed # {} /\ last.kind = "route"

\* the segments of a route or of a path
Segments(s) == Split(s, "/")
IsMarker(segs, i) == i > 1 /\ Len(segs[i]) >= 2 /\ segs[i][1] = ":"
HasStar(route) == \E i \in 1..Len(route) : route[i] = "*"

\* segment by segment: as many segments, a marker against any non-empty
\* segment, any other segment against itself
SegmentsMatch(route, path) ==
    LET rs == Segments(route)
        ps == Segments(path)
    IN /\ Len(rs) = Len(ps)
       /\ \A i \in 1..Len(rs) :
             IF IsMarker(rs, i) THEN ps[i] # <<>> ELSE ps[i] = rs[i]

\* C6: a route matches a path only as a whole; every :name marker takes one
\* non-empty segment without '/', and params maps each name to the segment
\* at the marker's place.  /u/:i with /u/42 gives {i: "42"}; /a/b does not
\* match /a/b/c.
C6_RouterMatching ==
    (last.op = "match") =>
        LET route == last.route
            path == HashParts(last.hash).path
            rs == Segments(route)
            ps == Segments(path)
            names == {Tail(rs[i]) : i \in {j \in 1..Len(rs) : IsMarker(rs, j)}}
            matched == last.scheduled # <<>>
            arg == last.scheduled[1].arg
        IN /\ matched =>
                /\ Len(last.scheduled) = 1
                /\ arg.path = path
                /\ DOMAIN arg.params = names
                /\ \A n \in names :
                      /\ arg.params[n] # <<>>
                      /\ \A k \in 1..Len(arg.params[n]) : arg.params[n][k] # "/"
           /\ ~HasStar(route) =>
                /\ matched <=> SegmentsMatch(route, path)
                /\ matched =>
                      \A i \in 1..Len(rs) :
                          IsMarker(rs, i) => arg.params[Tail(rs[i])] = ps[i]
           /\ (route = U_I /\ last.hash = H_U_42) =>
                (matched /\ arg.params[<<"i">>] = <<"4", "2">>)
           /\ (route = A_B /\ last.hash = H_A_B_C) => ~matched

\* /u/:i has been matched against /u/42
C6_Witness ==
    /\ last.op = "match" /\ last.route = U_I /\ last.hash = H_U_42
    /\ last.scheduled # <<>>
    /\ last.scheduled[1].arg.params[<<"i">>] = <<"4", "2">>

\* the routes of rts that match the path of location.hash h, by position
Matching(rts, h) ==
    {i \in 1..Len(rts) : StringMatch(HashParts(h).path, rts[i].value.regex).ok}

\* the step ran handleHash: an event reached its listener, or the first
\* registration found the document ready
Dispatched ==
    \/ last'.op = "hashchange" /\ hashListeners > 0
    \/ last'.op = "ready" /\ readyListeners > 0
    \/ /\ last'.op = "$h" /\ ~last'.threw /\ last'.route = "string"
       /\ ~initialized /\ ReadyNow(readyState)

\* C7: a dispatch schedules at most one callback; when routes match, it is the
\* callback of the first matching route of the registry, with that route's
\* params, and neither a later matching route nor the default route fires.
C7_RouterPrecedence ==
    [][Dispatched =>
        LET rts == RouteList(routes')
            hp == HashParts(hash')
            matching == Matching(rts, hash')
            first == rts[Min(matching)].value
            scheduled == last'.scheduled
        IN /\ Len(scheduled) <= 1
           /\ matching # {} =>
                /\ Len(scheduled) = 1
                /\ scheduled[1].kind = "route"
                /\ scheduled[1].cb = first.callback
                /\ scheduled[1].arg.path = hp.path
                /\ DOMAIN scheduled[1].arg.params =
                       {first.paramNames[k] : k \in 1..Len(first.paramNames)}
           /\ matching = {} => \A k \in 1..Len(scheduled) : scheduled[k].kind # "route"
      ]_vars

\* two routes with different callbacks match the path, the first was scheduled
C7_Witness ==
    LET rts == RouteList(routes)
    IN /\ last.op = "hashchange"
       /\ Len(rts) = 2
       /\ Matching(rts, hash) = {1, 2}
       /\ rts[1].value.callback # rts[2].value.callback
       /\ Len(last.scheduled) = 1
       /\ last.scheduled[1].cb = rts[1].value.callback

\* C8: a dispatch that finds no matching route schedules the default callback
\* once, with {path, params: {}, query}, when one is registered, and nothing
\* otherwise; the frame then calls $h.defaultRoute with that argument, once.
C8_RouterFallback ==
    [][/\ (Dispatched /\ Matching(RouteList(routes'), hash') = {}) =>
            IF defaultRoute' # Undefined
            THEN /\ Len(last'.scheduled) = 1
                 /\ last'.scheduled[1].kind = "default"
                 /\ last'.scheduled[1].arg.path = HashParts(hash').path
                 /\ DOMAIN last'.scheduled[1].arg.params = {}
                 /\ last'.scheduled[1].arg.query = HashParts(hash').query
            ELSE last'.scheduled = <<>>
       /\ (last'.op = "callback" /\ last'.kind = "default") =>
            /\ frames # <<>>
            /\ Head(frames).kind = "default"
            /\ frames' = Tail(frames)
            /\ last'.cb = defaultRoute
            /\ last'.cb # Undefined
            /\ last'.arg = Head(frames).arg
            /\ DOMAIN last'.arg.params = {}
      ]_vars

\* the default callback has run for the path / that no route matches
C8_Witness ==
    /\ last.op = "callback" /\ last.kind = "default"
    /\ last.cb = Fn("d")
    /\ last.arg.path = <<"/">>
    /\ RouteList(routes) # <<>>

\* C9: the router is initialized by the first route registration and never
\* again: there is at most one hashchange listener and at most one ready
\* listener, and a hashchange event schedules at most one callback.
C9_InitializedOnce ==
    /\ [](/\ hashListeners <= 1
          /\ readyListeners <= 1
          /\ initialized <=> (hashListeners = 1)
          /\ initialized <=> (RouteList(routes) # <<>>))
    /\ [][/\ initialized => initialized'
          /\ (~initialized /\ initialized') =>
                /\ last'.op = "$h" /\ last'.route = "string"
                /\ RouteList(routes) = <<>>
                /\ Len(RouteList(routes')) = 1
          /\ last'.op = "hashchange" =>
                /\ Len(last'.scheduled) <= 1
                /\ Len(frames') <= Len(frames) + 1
         ]_vars

\* with two routes registered, a hashchange event has scheduled one callback
C9_Witness ==
    /\ initialized /\ Len(RouteList(routes)) = 2
    /\ last.op = "hashchange" /\ Len(last.scheduled) = 1

\* C10: $h(route, callback) throws exactly when route is not a function and
\* either route is not a string or callback is not a function; a call that
\* throws leaves the registered routes, the default route, the initialized
\* flag, the listeners and the scheduled callbacks as they were.
C10_RegistrationFailure ==
    [][last'.op = "$h" =>
        /\ last'.threw <=>
              /\ last'.route # "function"
              /\ (last'.route # "string" \/ last'.callback # "function")
        /\ last'.threw =>
              /\ RouteList(routes') = RouteList(routes)
              /\ UNCHANGED <<defaultRoute, initialized, hashListeners, readyListeners,
                             frames, readyState, hash, hashEvents, cache>>
      ]_vars

\* a call has thrown in a router that holds routes and a default route
C10_Witness ==
    /\ last.op = "$h" /\ last.threw /\ last.route = "string"
    /\ initialized /\ RouteList(routes) # <<>> /\ defaultRoute # Undefined

\* registrations and re-registrations of three patterns, in every order
RegisterPatterns == {A, X, U_I}

NextRegister ==
    \/ \E p \in RegisterPatterns, cb \in Callbacks : DoRoute(Str(p), Fn(cb))
    \/ Navigate(<<"#", "/", "a">>)
    \/ HashChange
    \/ DOMContentLoaded
    \/ Frame

SpecRegister == Init /\ [][NextRegister]_vars

\* C11: registering a pattern that is already registered replaces its callback
\* and its matcher and leaves every pattern, that one included, at the position
\* it had; the registry never holds two definitions of one pattern.
C11_ReRegistrationInPlace ==
    [][(last'.op = "$h" /\ last'.known) =>
          LET old == RouteList(routes)
              new == RouteList(routes')
          IN /\ KeySeq(new) = KeySeq(old)
             /\ Cardinality(MapKeys(new)) = Len(new)
             /\ \E i \in 1..Len(new) :
                   /\ \A j \in 1..Len(new) : j # i => new[j] = old[j]
                   /\ new[i].value = CompileRoute(new[i].key, new[i].value.callback)
                   /\ DoRoute(Str(new[i].key), new[i].value.callback)
      ]_vars

\* the first of three registered patterns has been registered again, with a
\* callback that differs from the other patterns'
C11_Witness ==
    LET rts == RouteList(routes)
    IN /\ last.op = "$h" /\ last.known
       /\ Len(rts) = 3
       /\ last.scheduled = <<>>
       /\ rts[1].value.callback = Fn("g")
       /\ rts[2].value.callback = Fn("f")
       /\ rts[3].value.callback = Fn("f")

-----------------------------------------------------------------------------
(* The path handed to the callbacks *)

\* location.hash: empty, a query string only, a path, a path and a query string
H_QUERY == <<"#", "?", "k", "=", "v">>
PathHashes == {<<>>, H_QUERY, <<"#", "/", "a">>, <<"#", "/", "a", "?", "k", "=", "v">>}

NextPath ==
    \/ DoRoute(Str(X), Fn("f"))
    \/ DoRoute(Fn("d"), Undefined)
    \/ \E h \in PathHashes : Navigate(h)
    \/ HashChange
    \/ DOMContentLoaded
    \/ Frame

SpecPath == Init /\ [][NextPath]_vars

\* the part of the fragment before the first '?', the leading '#' dropped
PathComponent(h) == Split(StripHash(h), "?")[1]

\* C12: the path a dispatch matches and hands to the callback is the path
\* component of the fragment, and it is / whenever that component is empty,
\* a fragment that holds only a query string (#?k=v) included.
C12_PathDefault ==
    [][(Dispatched /\ last'.scheduled # <<>>) =>
          last'.scheduled[1].arg.path =
             IF PathComponent(hash') = <<>> THEN <<"/">> ELSE PathComponent(hash')
      ]_vars

-----------------------------------------------------------------------------
(* Navigation events and the frames between them *)

\* callbacks that may be pending in the frame queue in SpecNavigation
MaxPending == 2

\* one route, registered before the first navigation, and navigation events
\* that arrive faster than the frames
NextNavigation ==
    \/ hash = <<>> /\ DoRoute(Str(X), Fn("f"))
    \/ \E h \in RouterHashes : Navigate(h)
    \/ HashChangeEvent /\ Len(frames') <= MaxPending
    \/ DOMContentLoaded
    \/ Frame

SpecNavigation == Init /\ [][NextNavigation]_vars

\* C13: when a navigation event is processed, the callback of every earlier
\* navigation event has run to completion: the callbacks of two successive
\* navigation events are never both pending.
C13_DispatchRunsToCompletion ==
    [][last'.op = "hashchange" => frames = <<>>]_vars

\* C13, amended: a dispatch only hands its callback to the frame queue, behind
\* the callbacks that are still pending, so the next navigation event can be
\* processed before it runs; the callbacks run one per frame, each whole, in
\* the order of their dispatches.
C13_CallbacksInDispatchOrder ==
    [][/\ last'.op = "hashchange" =>
             /\ Len(frames') >= Len(frames)
             /\ SubSeq(frames', 1, Len(frames)) = frames
             /\ SubSeq(frames', Len(frames) + 1, Len(frames')) = last'.scheduled
       /\ last'.op = "callback" =>
             /\ frames # <<>>
             /\ last'.arg = Head(frames).arg
             /\ frames' = Tail(frames)
      ]_vars

\* the callback of the first navigation has run while the callback of the
\* second one was already pending
C13_Witness ==
    /\ last.op = "callback"
    /\ last.arg.path = <<"/", "a">>
    /\ Len(frames) = 1
    /\ frames[1].arg.path = <<"/", "b">>

-----------------------------------------------------------------------------
(* The ready hook *)

NextReady ==
    \/ \E f \in ReadyCallbacks : DoReady(Fn(f))
    \/ \E bad \in {Undefined, Num, Str(A)} : DoReady(bad)
    \/ DOMContentLoaded

SpecReady == Init /\ [][NextReady]_vars

\* how many times fn is subscribed
Subscribed(listeners, fn) == Len(SelectSeq(listeners, LAMBDA l : l = fn))

-----------------------------------------------------------------------------
(* What $ returns *)

\* C15: a lookup that queries the document returns a single element if there
\* is only one match or return_list is false, an array of the elements if
\* there are several matches and return_list is true, and null if nothing
\* matches and return_list is false.
C15_ResultShape ==
    (last.op = "$" /\ ~last.hit) =>
       LET n == QuerySelectorAll(last.key, dom)
       IN /\ (n = 1 \/ (n >= 1 /\ ~last.return_list)) => last.ret.kind = "element"
          /\ (n >= 2 /\ last.return_list) =>
                (last.ret.kind = "array" /\ last.ret.n = n)
          /\ (n = 0 /\ ~last.return_list) => last.ret = Null

-----------------------------------------------------------------------------
(* Cached node lists that the garbage collector reclaims *)

NextWeak ==
    \/ \E q \in ObservedSelectors, rl \in BOOLEAN : DoSelect(q, rl, TRUE)
    \/ \E i \in 1..MaxCache : Reclaim(i)
    \/ Mutate
    \/ ObserverCallback

SpecWeak == Init /\ [][NextWeak]_vars

-----------------------------------------------------------------------------
(* Selectors that do not parse *)

SyntaxSelectors == {"b", "c", "["}

NextSyntax ==
    \/ \E q \in SyntaxSelectors, rl \in BOOLEAN, uc \in BOOLEAN : DoSelect(q, rl, uc)
    \/ Mutate
    \/ ObserverCallback

SpecSyntax == Init /\ [][NextSyntax]_vars

\* C17: $ called with a selector that does not parse throws inside the call,
\* after one query of the document, and leaves the cache as it was: no entry
\* for that selector is added.
C17_SelectorSyntaxError ==
    /\ [][(last'.op = "$" /\ last'.key = "[") =>
             /\ last'.threw
             /\ last'.queries = 1
             /\ ~last'.stored /\ ~last'.hit
             /\ cache' = cache
         ]_vars
    /\ [](\A i \in 1..Len(cache) : cache[i].key # "[")
    /\ [](last.op = "$" => (last.threw <=> last.key = "["))

\* a cached lookup with a malformed selector has thrown in a run whose cache
\* holds an entry
C17_Witness ==
    /\ last.op = "$" /\ last.threw /\ last.useCache
    /\ last.key = "["
    /\ cache # <<>>

-----------------------------------------------------------------------------
(* The bulk helpers and the frames that apply their writes *)

\* the document after the writes have been made, one after the other
RECURSIVE WriteAll(_, _)
WriteAll(d, writes) ==
    IF writes = <<>> THEN d
    ELSE WriteAll([d EXCEPT ![Head(writes).el] = ApplyWrite(@, Head(writes))],
                  Tail(writes))

\* a bulk helper that writes to the elements before it returns
Bulk_Immediate(r) ==
    /\ frames' = frames
    /\ doc' = WriteAll(doc, r.writes)
    /\ last' = [op |-> "bulk", threw |-> r.threw]
    /\ UNCHANGED <<routes, defaultRoute, initialized, hashListeners, readyListeners,
                   readyState, hash, hashEvents>>
    /\ UNCHANGED cacheVars
    /\ UNCHANGED readyVars
    /\ UNCHANGED wrapVars
    /\ UNCHANGED appVars

\* a bulk helper has run and has handed the callbacks r.writes to n
Bulk(r) ==
    /\ frames' = RequestFrame(frames, r.writes)
    /\ Len(frames') <= MaxPending
    /\ last' = [op |-> "bulk", threw |-> r.threw]
    /\ UNCHANGED doc
    /\ UNCHANGED <<routes, defaultRoute, initialized, hashListeners, readyListeners,
                   readyState, hash, hashEvents>>
    /\ UNCHANGED cacheVars
    /\ UNCHANGED readyVars
    /\ UNCHANGED wrapVars
    /\ UNCHANGED appVars

\* the application calls $_(query, options)
DoUpdate(query, options) == Bulk(Update(QuerySelectorAll(query, dom), options))

\* the application calls $s(query, styles, index)
DoStyle(query, styles, index) ==
    Bulk(Style(QuerySelectorAll(query, dom), styles, index))

\* the application calls $c(query, index).method(a, b)
DoChain(query, index, method, a, b) ==
    Bulk(Chain(QuerySelectorAll(query, dom), index, method, a, b))

\* the next animation frame: the oldest callback handed to n writes to its element
FrameWrite ==
    /\ frames # <<>>
    /\ Head(frames).kind = "write"
    /\ frames' = Tail(frames)
    /\ doc' = [doc EXCEPT ![Head(frames).el] = ApplyWrite(@, Head(frames))]
    /\ last' = [op |-> "write"]
    /\ UNCHANGED <<routes, defaultRoute, initialized, hashListeners, readyListeners,
                   readyState, hash, hashEvents>>
    /\ UNCHANGED cacheVars
    /\ UNCHANGED readyVars
    /\ UNCHANGED wrapVars
    /\ UNCHANGED appVars

K == <<"k">>
T == <<"t">>
COLOR == <<"c", ":", " ", "r">>
Opt(fields) == [kind |-> "object", fields |-> fields]

UpdateOptions ==
    {Str(K),
     Opt([NoOptions EXCEPT !.removeClasses = Str(K)]),
     Opt([NoOptions EXCEPT !.toggleClasses = Arr(<<K>>)]),
     Opt([NoOptions EXCEPT !.setAttrs = Obj(<<<<T, Str(<<"1">>)>>>>)]),
     Opt([NoOptions EXCEPT !.removeAttrs = Str(T)]),
     Opt([NoOptions EXCEPT !.addClasses = Str(K), !.index = Index(1)]),
     Opt([NoOptions EXCEPT !.addClasses = Num])}

\* $s arguments: styles and index
StyleCalls ==
    {<<Str(COLOR), Undefined>>,
     <<Str(COLOR), Index(1)>>,
     <<Obj(<<<<<<"c">>, Str(<<"r">>)>>>>), Undefined>>,
     <<Str(<<"c">>), Undefined>>,
     <<Num, Undefined>>}

\* $c arguments: index, method and the method's arguments
ChainCalls ==
    {<<Undefined, "addClass", Str(K), Undefined>>,
     <<Index(1), "addClass", Str(K), Undefined>>,
     <<Undefined, "removeClass", Str(K), Undefined>>,
     <<Undefined, "toggleClass", Str(K), Undefined>>,
     <<Undefined, "attr", Str(T), Str(<<"1">>)>>,
     <<Undefined, "attr", Str(T), Undefined>>,
     <<Undefined, "css", Str(COLOR), Undefined>>}

NextBulk ==
    \/ \E q \in ObservedSelectors, options \in UpdateOptions : DoUpdate(q, options)
    \/ \E q \in {"b", "c"}, c \in StyleCalls : DoStyle(q, c[1], c[2])
    \/ \E q \in {"b", "c"}, c \in ChainCalls : DoChain(q, c[1], c[2], c[3], c[4])
    \/ FrameWrite

\* the helpers are called once the document has been loaded
InitLoaded ==
    /\ Init
    /\ readyState = "complete"

SpecBulk == InitLoaded /\ [][NextBulk]_vars

\* C18: a call of $_, $s or of $c's addClass, removeClass, toggleClass, attr or
\* css leaves every element as it is; what it writes is handed to the frame
\* queue behind the writes already pending, and each frame applies the oldest
\* pending write, so the writes reach the document in the order of the calls.
C18_DeferredBulkWrites ==
    [][/\ last'.op = "bulk" =>
             /\ doc' = doc
             /\ Len(frames') >= Len(frames)
             /\ SubSeq(frames', 1, Len(frames)) = frames
             /\ \A i \in (Len(frames) + 1)..Len(frames') : frames'[i].kind = "write"
             /\ last'.threw => frames' = frames
       /\ last'.op = "write" =>
             /\ frames # <<>>
             /\ frames' = Tail(frames)
             /\ \A e \in Elements : e # Head(frames).el => doc'[e] = doc[e]
             /\ LET f == Head(frames)
                    names == {f.arg[i] : i \in 1..Len(f.arg)}
                    old == doc[f.el]
                    new == doc'[f.el]
                IN CASE f.w = "classList.add" -> new.classList = old.classList \cup names
                     [] f.w = "classList.remove" -> new.classList = old.classList \ names
                     [] f.w = "classList.toggle" ->
                           new.classList = (old.classList \ names)
                                              \cup (names \ old.classList)
                     [] f.w = "setAttribute" ->
                           \A i \in 1..Len(f.arg) : new.attrs[f.arg[i][1]] = f.arg[i][2]
                     [] f.w = "removeAttribute" -> DOMAIN new.attrs = DOMAIN old.attrs \ names
                     [] f.w = "style" ->
                           \A i \in 1..Len(f.arg) : new.style[f.arg[i][1]] = f.arg[i][2]
       /\ doc' # doc => last'.op = "write"
      ]_vars

\* the class added by the first call has been removed by the frame of the
\* second call: the element is back without the class, a write still pending
C18_Witness ==
    /\ last.op = "write"
    /\ doc[1].classList = {}
    /\ doc[1].attrs # <<>>
    /\ Len(frames) = 1
    /\ frames[1].w = "classList.add"

-----------------------------------------------------------------------------
(* The vNode wrappers: identity cache and attribute interception.  Attribute *)
(* names and values are plain strings here; an absent attribute is a key     *)
(* that the mapping does not hold.                                           *)

\* wrappers that may be constructed in one run
MaxWrappers == 3

AttrNames == {"x"}
AttrValues == {"v", "w"}

\* a wrapper: its identity, its attribute store seeded from the element, the
\* suppression flag and the pending reset of the flag
NewWrapper(id, attrs) ==
    [kind |-> "vNode", id |-> id, store |-> attrs, flag |-> FALSE, reset |-> FALSE]

\* a wrap that constructs a wrapper on every call
wrap_Fresh(ws, count, d, e) ==
    [wrappers |-> [ws EXCEPT ![e] = NewWrapper(count + 1, d[e].attrs)],
     made |-> count + 1, ret |-> count + 1]

\* wrap(element): the wrapper the identity cache holds for the element, or a
\* new one, which the cache then holds
wrap(ws, count, d, e) ==
    IF ws[e] # Undefined
    THEN [wrappers |-> ws, made |-> count, ret |-> ws[e].id]
    ELSE [wrappers |-> [ws EXCEPT ![e] = NewWrapper(count + 1, d[e].attrs)],
          made |-> count + 1, ret |-> count + 1]

\* wrap applied to the elements of a selection, in order
RECURSIVE WrapAll(_, _, _, _)
WrapAll(ws, count, d, nodes) ==
    IF nodes = <<>>
    THEN [wrappers |-> ws, made |-> count, ret |-> <<>>]
    ELSE LET r == wrap(ws, count, d, Head(nodes))
             t == WrapAll(r.wrappers, r.made, d, Tail(nodes))
         IN [wrappers |-> t.wrappers, made |-> t.made, ret |-> <<r.ret>> \o t.ret]

Put(obj, key, value) == [k \in DOMAIN obj \cup {key} |-> IF k = key THEN value ELSE obj[k]]

\* a record of a mutation of attribute key: a write of the library or of a script
Record(key, by) == [key |-> key, by |-> by]

\* an attribute write that does not compare with the store
AttrWrite_Always(w, attrs, key, value) ==
    [wrapper |-> [w EXCEPT !.store = Put(@, key, value), !.flag = TRUE, !.reset = TRUE],
     attrs |-> Put(attrs, key, value), wrote |-> TRUE]

\* wrapper.attrs[key] = value: nothing when the store holds the value already;
\* otherwise the store is updated, the suppression flag set, the native
\* attribute written and the reset of the flag scheduled
AttrWrite(w, attrs, key, value) ==
    IF key \in DOMAIN w.store /\ w.store[key] = value
    THEN [wrapper |-> w, attrs |-> attrs, wrote |-> FALSE]
    ELSE [wrapper |-> [w EXCEPT !.store = Put(@, key, value),
                                !.flag = TRUE, !.reset = TRUE],
          attrs |-> Put(attrs, key, value), wrote |-> TRUE]

\* the application calls wrap(e)
DoWrap(e) ==
    LET r == wrap(wrappers, made, doc, e)
    IN /\ r.made <= MaxWrappers
       /\ wrappers' = r.wrappers
       /\ made' = r.made
       /\ last' = [op |-> "wrap", el |-> e, ret |-> r.ret,
                   again |-> wrappers[e] # Undefined]
       /\ UNCHANGED <<cacheVars, routerVars, appVars, readyVars, domVars, pending>>

\* the application selects the elements that match query: each is wrapped
DoSelectWrapped(query) ==
    LET r == WrapAll(wrappers, made, doc, Nodes(QuerySelectorAll(query, dom)))
    IN /\ r.made <= MaxWrappers
       /\ wrappers' = r.wrappers
       /\ made' = r.made
       /\ last' = [op |-> "select", ret |-> r.ret]
       /\ UNCHANGED <<cacheVars, routerVars, appVars, readyVars, domVars, pending>>

\* the application assigns wrapper.attrs[key] = value on the wrapper of e
DoAttrWrite(e, key, value) ==
    /\ wrappers[e] # Undefined
    /\ LET r == AttrWrite(wrappers[e], doc[e].attrs, key, value)
       IN /\ wrappers' = [wrappers EXCEPT ![e] = r.wrapper]
          /\ doc' = [doc EXCEPT ![e].attrs = r.attrs]
          /\ pending' = IF r.wrote
                        THEN [pending EXCEPT ![e] = @ \cup {Record(key, "library")}]
                        ELSE pending
          /\ last' = [op |-> "attrs.set", el |-> e, key |-> key, value |-> value,
                      wrote |-> r.wrote]
    /\ UNCHANGED <<cacheVars, routerVars, appVars, readyVars, made>>

\* the microtask scheduled by a write runs: the suppression flag is cleared
FlagReset(e) ==
    /\ wrappers[e] # Undefined
    /\ wrappers[e].reset
    /\ wrappers' = [wrappers EXCEPT ![e].flag = FALSE, ![e].reset = FALSE]
    /\ last' = [op |-> "microtask"]
    /\ UNCHANGED <<cacheVars, routerVars, appVars, readyVars, domVars, made, pending>>

\* the observer of a wrapped element is handed a record of the mutation
Observe(p, ws, e, key) ==
    IF ws[e] # Undefined THEN [p EXCEPT ![e] = @ \cup {Record(key, "script")}] ELSE p

\* a script sets the native attribute of e, bypassing the wrapper
NativeSet(e, key, value) ==
    /\ doc' = [doc EXCEPT ![e].attrs = Put(@, key, value)]
    /\ pending' = Observe(pending, wrappers, e, key)
    /\ last' = [op |-> "setAttribute", el |-> e, key |-> key]
    /\ UNCHANGED <<cacheVars, routerVars, appVars, readyVars, wrappers, made>>

\* a script removes the native attribute of e, bypassing the wrapper
NativeRemove(e, key) ==
    /\ key \in DOMAIN doc[e].attrs
    /\ doc' = [doc EXCEPT ![e].attrs = [k \in DOMAIN @ \ {key} |-> @[k]]]
    /\ pending' = Observe(pending, wrappers, e, key)
    /\ last' = [op |-> "removeAttribute", el |-> e, key |-> key]
    /\ UNCHANGED <<cacheVars, routerVars, appVars, readyVars, wrappers, made>>

\* a reconciliation that never deletes a key
Reconcile_SetOnly(store, attrs, keys) ==
    [k \in DOMAIN store \cup (keys \cap DOMAIN attrs) |->
        IF k \in keys \cap DOMAIN attrs THEN attrs[k] ELSE store[k]]

\* a reconciliation that drops the keys it was notified of
Reconcile_Drop(store, attrs, keys) == [k \in DOMAIN store \ keys |-> store[k]]

\* for each record: read the native attribute; set the key if it is present,
\* delete the key if it has been removed
Reconcile(store, attrs, keys) ==
    [k \in (DOMAIN store \ keys) \cup (keys \cap DOMAIN attrs) |->
        IF k \in keys THEN attrs[k] ELSE store[k]]

\* the platform delivers the batch of records to the wrapper's observer: the
\* batch is discarded while the suppression flag is set
Deliver(e) ==
    /\ wrappers[e] # Undefined
    /\ pending[e] # {}
    /\ pending' = [pending EXCEPT ![e] = {}]
    /\ LET keys == {r.key : r \in pending[e]}
       IN /\ wrappers' =
                IF wrappers[e].flag
                THEN wrappers
                ELSE [wrappers EXCEPT ![e].store = Reconcile(@, doc[e].attrs, keys)]
          /\ last' = [op |-> "deliver", el |-> e, keys |-> keys,
                      suppressed |-> wrappers[e].flag,
                      script |-> \E r \in pending[e] : r.by = "script"]
    /\ UNCHANGED <<cacheVars, routerVars, appVars, readyVars, domVars, made>>

NextWrap ==
    \/ \E e \in Elements : DoWrap(e)
    \/ \E q \in ObservedSelectors : DoSelectWrapped(q)
    \/ \E e \in Elements, k \in AttrNames, v \in AttrValues : DoAttrWrite(e, k, v)
    \/ \E e \in Elements : FlagReset(e)
    \/ \E e \in Elements, k \in AttrNames, v \in AttrValues : NativeSet(e, k, v)
    \/ \E e \in Elements, k \in AttrNames : NativeRemove(e, k)
    \/ \E e \in Elements : Deliver(e)

SpecWrap == InitLoaded /\ [][NextWrap]_vars

Wrapped == {e \in Elements : wrappers[e] # Undefined}

\* C19: wrap(e) returns the same wrapper every time, whatever selections and
\* wrap calls came before: a wrapper, once made, stays the wrapper of its
\* element, and no element ever has two.
C19_IdentityStability ==
    /\ [](/\ made = Cardinality(Wrapped)
          /\ \A e1, e2 \in Wrapped : e1 # e2 => wrappers[e1].id # wrappers[e2].id)
    /\ [][/\ \A e \in Wrapped : e \in Wrapped' /\ wrappers'[e].id = wrappers[e].id
          /\ last'.op = "wrap" =>
                /\ last'.ret = wrappers'[last'.el].id
                /\ last'.again => (last'.ret = wrappers[last'.el].id /\ made' = made)
          /\ last'.op = "select" =>
                \A i \in 1..Len(last'.ret) : last'.ret[i] = wrappers'[i].id
         ]_vars

\* both elements have been selected and wrapped, and a later wrap of the
\* second one has returned the wrapper made for it then
C19_Witness ==
    /\ last.op = "wrap" /\ last.again
    /\ last.el = 2
    /\ made = 2
    /\ last.ret = wrappers[2].id

\* C20: an assignment wrapper.attrs[x] = v of a value that differs from the
\* stored one leaves the store and the native attribute x holding v when it
\* returns; an assignment of the stored value writes nothing to the element
\* and leaves the suppression flag as it was.
C20_WriteRoundTrip ==
    [][last'.op = "attrs.set" =>
          LET e == last'.el
              k == last'.key
              v == last'.value
              w == wrappers[e]
          IN IF k \in DOMAIN w.store /\ w.store[k] = v
             THEN /\ ~last'.wrote
                  /\ doc' = doc
                  /\ wrappers'[e].flag = w.flag
                  /\ wrappers'[e].reset = w.reset
                  /\ wrappers'[e].store = w.store
             ELSE /\ last'.wrote
                  /\ k \in DOMAIN wrappers'[e].store /\ wrappers'[e].store[k] = v
                  /\ k \in DOMAIN doc'[e].attrs /\ doc'[e].attrs[k] = v
      ]_vars

\* an assignment of w has been written: the store and the native attribute
\* hold w and the suppression flag is set
C20_Witness ==
    /\ last.op = "attrs.set" /\ last.wrote
    /\ last.value = "w"
    /\ wrappers[last.el].store = [k \in {"x"} |-> "w"]
    /\ doc[last.el].attrs = [k \in {"x"} |-> "w"]
    /\ wrappers[last.el].flag


\* the store and the native attributes hold the same thing under every key of keys
Agree(store, attrs, keys) ==
    \A k \in keys :
        IF k \in DOMAIN attrs
        THEN k \in DOMAIN store /\ store[k] = attrs[k]
        ELSE k \notin DOMAIN store

\* C21: echo suppression: the batch that holds only the records of the
\* library's own attribute writes leaves the wrapper's store as the writes
\* left it, whether the batch is discarded under the suppression flag or is
\* delivered after the flag was cleared; once the window has elapsed the store
\* still holds the written value, which is the native one.
C21_EchoSuppression ==
    [][(last'.op = "deliver" /\ ~last'.script)
        => /\ wrappers'[last'.el].store = wrappers[last'.el].store
           /\ Agree(wrappers'[last'.el].store, doc'[last'.el].attrs, last'.keys)
           /\ \A k \in last'.keys : k \in DOMAIN wrappers'[last'.el].store]_vars

C21_Witness ==
    /\ last.op = "deliver"
    /\ ~last.script
    /\ last.suppressed
    /\ last.el = 1
    /\ "x" \in DOMAIN wrappers[1].store
    /\ wrappers[1].store["x"] = "w"

\* C22 as stated: after the batch that holds the record of a script's mutation
\* is delivered, the store agrees with the native attribute, also when the
\* mutation shares its turn with a write of the library on the same wrapper.
C22_ExternalAbsorption ==
    [][(last'.op = "deliver" /\ last'.script)
        => Agree(wrappers'[last'.el].store, doc'[last'.el].attrs, last'.keys)]_vars

\* C22: external absorption, amended: a batch delivered while the suppression
\* flag is clear leaves the store agreeing with the native attribute under every
\* key of the batch (set when present, deleted when removed); a batch delivered
\* while the flag is set, which is the batch of a turn that also holds a write
\* of the library, is discarded whole and leaves the store as it was.
C22_AbsorptionOutsideWindow ==
    [][(last'.op = "deliver" /\ last'.script)
        => IF last'.suppressed
           THEN wrappers'[last'.el].store = wrappers[last'.el].store
           ELSE Agree(wrappers'[last'.el].store, doc'[last'.el].attrs, last'.keys)]_vars

C22_Witness ==
    /\ last.op = "deliver"
    /\ last.script
    /\ ~last.suppressed
    /\ last.el = 1
    /\ "x" \in DOMAIN wrappers[1].store
    /\ wrappers[1].store["x"] = "w"
    /\ "x" \in DOMAIN doc[1].attrs
    /\ doc[1].attrs["x"] = "w"

-----------------------------------------------------------------------------
(* yokto.config after the script has loaded *)

\* the application assigns yokto.config.MAX_CACHE_SIZE = n; _$ was constructed
\* when the script loaded and nothing reads the property again
SetMaxCacheSize(n) ==
    /\ maxCacheSize' = n
    /\ last' = [op |-> "config", value |-> n]
    /\ UNCHANGED <<coreVars, netVars, mount>>

NextConfig ==
    \/ \E n \in 1..MaxCache : SetMaxCacheSize(n)
    \/ \E q \in ObservedSelectors, rl \in BOOLEAN : DoSelect(q, rl, TRUE)
    \/ DoClearCache

SpecConfig == Init /\ [][NextConfig]_vars

\* C23 as stated: configuration takes effect: once the application has set
\* yokto.config.MAX_CACHE_SIZE = n, the selector cache used by $ never holds
\* more than n entries.
C23_ConfigurationTakesEffect == Len(cache) <= maxCacheSize

-----------------------------------------------------------------------------
(* RESTClient: the retry loop *)

\* the largest numeric options.retry tried
MaxRetry == 2

\* the error thrown or rejected with in attempt number attempt
Err(name, attempt) == [name |-> name, attempt |-> attempt]

\* one attempt more than the code makes
MaxAttempts_OneMore(retry) == retry + 2

\* typeof retry === "number" ? retry + 1 : ...
MaxAttempts(retry) == retry + 1

\* a catch block without `if (err.name === 'AbortError') throw new Error('Timeout')`
Failed_RetryTimeout(c, err) ==
    IF c.attempt < MaxAttempts(c.retry)
    THEN [c EXCEPT !.pc = "wait", !.lastErr = err]
    ELSE [c EXCEPT !.pc = "rejected", !.lastErr = err, !.error = err]

\* the catch block, the finally block and the end of the loop: a timeout
\* rejects at once, any other error is kept and either the retry delay is
\* awaited or, after the last attempt, the loop ends and lastErr is thrown
Failed(c, err) ==
    IF err.name = "AbortError"
    THEN [c EXCEPT !.pc = "rejected", !.lastErr = err,
                   !.error = Err("Timeout", c.attempt)]
    ELSE IF c.attempt < MaxAttempts(c.retry)
         THEN [c EXCEPT !.pc = "wait", !.lastErr = err]
         ELSE [c EXCEPT !.pc = "rejected", !.lastErr = err, !.error = err]

\* the try block up to `await fetchWithTimeout(signal)`: a body that cannot be
\* serialised throws before fetch is called
Attempt(c) ==
    IF c.bad
    THEN Failed(c, Err("Invalid JSON data", c.attempt))
    ELSE [c EXCEPT !.pc = "fetch", !.fetches = @ + 1]

\* RESTClient(method, url, {retry, timeout, raw, data})
RESTClient(retry, timed, raw, bad) ==
    /\ call.pc = "idle"
    /\ call' = Attempt([pc |-> "start", retry |-> retry, timed |-> timed, raw |-> raw,
                        bad |-> bad, attempt |-> 1, fetches |-> 0, ok |-> FALSE,
                        lastErr |-> Null, error |-> Null])
    /\ last' = [op |-> "RESTClient"]
    /\ UNCHANGED <<coreVars, cfgVars, sock, mount>>

\* the fetch promise settles: with a response (ok or not), with a network
\* error, or, when the timeout timer has aborted it, with an AbortError
FetchSettles(outcome) ==
    /\ call.pc = "fetch"
    /\ outcome = "abort" => call.timed
    /\ call' = CASE outcome = "ok" ->
                      [call EXCEPT !.ok = TRUE,
                                   !.pc = IF call.raw THEN "resolved" ELSE "json"]
                 [] outcome = "http" -> Failed(call, Err("HTTP", call.attempt))
                 [] outcome = "network" -> Failed(call, Err("TypeError", call.attempt))
                 [] OTHER -> Failed(call, Err("AbortError", call.attempt))
    /\ last' = [op |-> "fetch", outcome |-> outcome]
    /\ UNCHANGED <<coreVars, cfgVars, sock, mount>>

\* `return await resp.json()` inside the try block: a body that does not parse
\* rejects into the catch block
JsonSettles(parsed) ==
    /\ call.pc = "json"
    /\ call' = IF parsed
               THEN [call EXCEPT !.pc = "resolved"]
               ELSE Failed(call, Err("SyntaxError", call.attempt))
    /\ last' = [op |-> "json", parsed |-> parsed]
    /\ UNCHANGED <<coreVars, cfgVars, sock, mount>>

\* the retry delay is over: attempt++ and the loop body runs again
RetryTimer ==
    /\ call.pc = "wait"
    /\ call' = Attempt([call EXCEPT !.attempt = @ + 1])
    /\ last' = [op |-> "retry"]
    /\ UNCHANGED <<coreVars, cfgVars, sock, mount>>

FetchOutcomes == {"ok", "http", "network", "abort"}

NextRest ==
    \/ \E r \in 0..MaxRetry, timed \in BOOLEAN, raw \in BOOLEAN, bad \in BOOLEAN :
          RESTClient(r, timed, raw, bad)
    \/ \E o \in FetchOutcomes : FetchSettles(o)
    \/ \E parsed \in BOOLEAN : JsonSettles(parsed)
    \/ RetryTimer

\* every fetch and every body read settles and every timer fires
SpecRest == Init /\ [][NextRest]_vars /\ WF_vars(NextRest)

Settled == call.pc \in {"resolved", "rejected"}

-----------------------------------------------------------------------------
(* WSClient: connect, setupHandlers, init, reconnect *)

\* options.reconnectRetries of the client under test (the default is 5)
reconnectRetries == 2
\* options.reconnectDelay: the default
reconnectDelay == 1000
\* WebSocket objects one client constructs in one run
MaxSockets == 3

RECURSIVE Pow2(_)
\* Math.pow(2, n)
Pow2(n) == IF n = 0 THEN 1 ELSE 2 * Pow2(n - 1)

\* new WebSocket(url, protocols) in connect(): onopen is the resolve of
\* openPromise, no other handler is set, the connect timer is running
NewWebSocket == [state |-> "connecting", set |-> FALSE, race |-> "pending"]

\* connect() up to its return: ws = new WebSocket(...)
Connect(s) ==
    [s EXCEPT !.sockets = Append(@, NewWebSocket), !.ws = Len(s.sockets) + 1]

\* try { ws.close(); } catch(e){} : the close event is dispatched later
Close(s) ==
    IF s.sockets[s.ws].state \in {"connecting", "open"}
    THEN [s EXCEPT !.sockets[s.ws].state = "closing"]
    ELSE s

\* a backoff that does not grow
Delay_Flat(retryCount) == reconnectDelay

\* reconnectDelay * Math.pow(2, retryCount - 1)
Delay(retryCount) == reconnectDelay * Pow2(retryCount - 1)

\* a retry that is scheduled without looking at the counter
CanRetry_Always(s) == s.autoReconnect

\* autoReconnect && retryCount < reconnectRetries
CanRetry(s) == s.autoReconnect /\ s.retryCount < reconnectRetries

\* retryCount++; setTimeout(init, delay)
Schedule(s) ==
    [s EXCEPT !.retryCount = @ + 1, !.timers = @ + 1,
              !.attempts = @ + 1, !.streak = @ + 1]

\* setupHandlers(): onopen, onclose, onmessage and onerror of the current ws
setupHandlers(s) == [s EXCEPT !.sockets[s.ws].set = TRUE]

\* const ws = WSClient(url, {autoReconnect}): the first init() runs connect()
WSClient(autoReconnect) ==
    /\ sock.pc = "none"
    /\ sock' = Connect([pc |-> "made", autoReconnect |-> autoReconnect,
                        sockets |-> <<>>, ws |-> 0, retryCount |-> 0,
                        isClosedIntentionally |-> FALSE, timers |-> 0,
                        attempts |-> 0, streak |-> 0])
    /\ last' = [op |-> "WSClient"]
    /\ UNCHANGED <<coreVars, cfgVars, call, mount>>

\* the connection of socket i is established and its open event is dispatched
\* to whatever socket.onopen is at that moment: the resolve of openPromise
\* (init then resumes and calls setupHandlers) or the handler of setupHandlers
OpenEvent(i) ==
    /\ sock.pc = "made"
    /\ i \in 1..Len(sock.sockets)
    /\ sock.sockets[i].state = "connecting"
    /\ LET opened == [sock EXCEPT !.sockets[i].state = "open", !.streak = 0]
       IN IF sock.sockets[i].set
          THEN /\ sock' = [opened EXCEPT !.retryCount = 0]
               /\ last' = [op |-> "open", onOpen |-> TRUE]
          ELSE /\ sock' = IF sock.sockets[i].race = "pending"
                          THEN setupHandlers([opened EXCEPT !.sockets[i].race = "opened"])
                          ELSE opened
               /\ last' = [op |-> "open", onOpen |-> FALSE]
    /\ UNCHANGED <<coreVars, cfgVars, call, mount>>

\* the connect timer of socket i fires before its openPromise has resolved:
\* the catch of connect() closes ws and rethrows, the catch of init() retries
\* or gives up
ConnectTimeout(i) ==
    /\ sock.pc = "made"
    /\ i \in 1..Len(sock.sockets)
    /\ sock.sockets[i].race = "pending"
    /\ LET failed == Close([sock EXCEPT !.sockets[i].race = "failed"])
       IN IF CanRetry(failed)
          THEN /\ sock' = Schedule(failed)
               /\ last' = [op |-> "schedule", delay |-> Delay(failed.retryCount + 1),
                           path |-> "connect"]
          ELSE /\ sock' = failed
               /\ last' = [op |-> "onReconnectFail"]
    /\ UNCHANGED <<coreVars, cfgVars, call, mount>>

\* socket i is closed (by the peer, by a failed connection or after close())
\* and its close event is dispatched to socket.onclose, if it has one
CloseEvent(i) ==
    /\ sock.pc = "made"
    /\ i \in 1..Len(sock.sockets)
    /\ sock.sockets[i].state # "closed"
    /\ LET closed == [sock EXCEPT !.sockets[i].state = "closed"]
       IN IF sock.sockets[i].set /\ ~sock.isClosedIntentionally /\ CanRetry(closed)
          THEN /\ sock' = Schedule(closed)
               /\ last' = [op |-> "schedule", delay |-> Delay(closed.retryCount + 1),
                           path |-> "close"]
          ELSE /\ sock' = closed
               /\ last' = [op |-> "close"]
    /\ UNCHANGED <<coreVars, cfgVars, call, mount>>

\* an error event on socket i, dispatched to socket.onerror
ErrorEvent(i) ==
    /\ sock.pc = "made"
    /\ i \in 1..Len(sock.sockets)
    /\ sock.sockets[i].state \in {"connecting", "open"}
    /\ sock.sockets[i].set
    /\ sock' = IF CanRetry(sock) THEN Close(sock) ELSE sock
    /\ last' = [op |-> "error"]
    /\ UNCHANGED <<coreVars, cfgVars, call, mount>>

\* a setTimeout(init, delay) timer fires: init() runs connect()
ReconnectTimer ==
    /\ sock.pc = "made"
    /\ sock.timers > 0
    /\ Len(sock.sockets) < MaxSockets
    /\ sock' = Connect([sock EXCEPT !.timers = @ - 1])
    /\ last' = [op |-> "init"]
    /\ UNCHANGED <<coreVars, cfgVars, call, mount>>

\* ws.reconnect()
Reconnect ==
    /\ sock.pc = "made"
    /\ Len(sock.sockets) < MaxSockets
    /\ sock' = Connect(Close([sock EXCEPT !.isClosedIntentionally = FALSE,
                                          !.retryCount = 0,
                                          !.attempts = 0, !.streak = 0]))
    /\ last' = [op |-> "reconnect"]
    /\ UNCHANGED <<coreVars, cfgVars, call, mount>>

\* ws.closeIntentionally()
CloseIntentionally ==
    /\ sock.pc = "made"
    /\ ~sock.isClosedIntentionally
    /\ sock' = Close([sock EXCEPT !.isClosedIntentionally = TRUE])
    /\ last' = [op |-> "closeIntentionally"]
    /\ UNCHANGED <<coreVars, cfgVars, call, mount>>

NextWS ==
    \/ \E a \in BOOLEAN : WSClient(a)
    \/ \E i \in 1..MaxSockets : OpenEvent(i)
    \/ \E i \in 1..MaxSockets : ConnectTimeout(i)
    \/ \E i \in 1..MaxSockets : CloseEvent(i)
    \/ \E i \in 1..MaxSockets : ErrorEvent(i)
    \/ ReconnectTimer
    \/ Reconnect
    \/ CloseIntentionally

SpecWS == InitLoaded /\ [][NextWS]_vars

C26_OnOpenEveryTime == [][last'.op = "open" => last'.onOpen]_vars

\* C27 as stated: the k-th consecutive automatic reconnection attempt (the
\* k-th since a connection last opened) is scheduled with the delay
\* reconnectDelay * 2^(k-1), on the close path and on the failed-connect path.
C27_Backoff ==
    [][last'.op = "schedule" => last'.delay = reconnectDelay * Pow2(sock'.streak - 1)]_vars

-----------------------------------------------------------------------------
(* $mount and the per-slot preloader of $layout *)

\* calls of $mount on the slot in one run
MaxMounts == 2

\* what a content promise settles with: the kinds $mount tells apart
Settlements == {"string", "node", "array", "null", "invalid", "reject"}

\* the content of a call: a promise, or one of the values $mount accepts
Contents == {"promise", "string", "node", "array", "null", "invalid"}

\* showPreloader: node.innerHTML = ''; node.appendChild(preNode)
showPreloader(m) == [m EXCEPT !.kids = <<"pre">>]

\* a hidePreloader that leaves the slot alone
hidePreloader_Keep(m) == m

\* hidePreloader: node.innerHTML = ''
hidePreloader(m) == [m EXCEPT !.kids = <<>>]

\* string and array content is inserted as a DocumentFragment
IsFragment(content) == content \in {"string", "array"}

\* $mount from `let nodeToInsert = null` to its return, for the resolved
\* content; item stands for the nodes of the content in the slot
InsertAs(m, content, item) ==
    CASE content = "null" -> [m EXCEPT !.pc = "returned"]
      [] content = "invalid" ->
            [m EXCEPT !.pc = "rejected", !.error = "invalid content type"]
      [] OTHER ->
            LET cleared == IF m.clear THEN [m EXCEPT !.kids = <<>>] ELSE m
            IN IF m.replace
               THEN IF IsFragment(content)
                    \* parent.insertBefore(frag, slotNode); parent.removeChild(slotNode):
                    \* the parent of a slot node that was replaced before is null
                    THEN IF cleared.attached
                         THEN [cleared EXCEPT !.pc = "returned", !.attached = FALSE,
                                              !.placed = TRUE]
                         ELSE [cleared EXCEPT !.pc = "rejected", !.error = "TypeError"]
                    \* slotNode.replaceWith(node); layout.nodes[slotName] = node
                    ELSE [cleared EXCEPT !.pc = "returned", !.kids = <<>>,
                                         !.placed = cleared.attached]
               ELSE [cleared EXCEPT !.pc = "returned",
                                    !.kids = Append(@, item)]

\* the same for a call that no other call overlaps
Insert(m, content) == InsertAs(m, content, "content")

\* $mount(layoutName, slotName, content, {clear, replace}) up to its first
\* await, or to its return when content is not a promise
Mount(content, clear, replace) ==
    /\ mount.pc \in {"idle", "returned", "rejected"}
    /\ mount.calls < MaxMounts
    /\ LET m == [mount EXCEPT !.clear = clear, !.replace = replace,
                              !.calls = @ + 1, !.error = "", !.placed = FALSE]
       IN mount' = IF content = "promise"
                   THEN [showPreloader(m) EXCEPT !.pc = "awaiting"]
                   ELSE Insert(m, content)
    /\ last' = [op |-> "$mount", content |-> content]
    /\ UNCHANGED <<coreVars, cfgVars, netVars>>

\* the content promise settles and $mount resumes: the finally block hides
\* the preloader, a rejection leaves $mount, a value is inserted
Settle(outcome) ==
    /\ mount.pc = "awaiting"
    /\ mount' = IF outcome = "reject"
                THEN [hidePreloader(mount) EXCEPT !.pc = "rejected", !.error = "reason"]
                ELSE Insert(hidePreloader(mount), outcome)
    /\ last' = [op |-> "settle", outcome |-> outcome]
    /\ UNCHANGED <<coreVars, cfgVars, netVars>>

NextMount ==
    \/ \E c \in Contents, clear \in BOOLEAN, replace \in BOOLEAN : Mount(c, clear, replace)
    \/ \E o \in Settlements : Settle(o)

SpecMount == InitLoaded /\ [][NextMount]_vars

\* C28 as stated: $mount with a promise: the slot shows the preloader until
\* the promise settles; the preloader is removed when it settles; a rejection
\* propagates and inserts nothing; on resolution the resolved content is in
\* the slot when $mount returns.
C28_MountPromise ==
    /\ [][mount'.pc = "awaiting" => mount'.kids = <<"pre">>]_vars
    /\ [][last'.op = "settle"
            => /\ \A i \in 1..Len(mount'.kids) : mount'.kids[i] # "pre"
               /\ last'.outcome = "reject"
                     => /\ mount'.pc = "rejected"
                        /\ mount'.error = "reason"
                        /\ mount'.kids = <<>>
               /\ last'.outcome \in {"string", "node", "array"}
                     => /\ mount'.pc = "returned"
                        /\ mount'.kids = <<"content">>]_vars

\* C28, amended: as stated up to the resolution; on resolution with a string,
\* a node or an array the content is the only content of the slot when $mount
\* returns, unless options.replace is set: then the slot node is left empty
\* and the content is put in its place in the document, if it has one.
C28_MountPromiseUnlessReplace ==
    /\ [][mount'.pc = "awaiting" => mount'.kids = <<"pre">>]_vars
    /\ [][last'.op = "settle"
            => /\ \A i \in 1..Len(mount'.kids) : mount'.kids[i] # "pre"
               /\ last'.outcome = "reject"
                     => /\ mount'.pc = "rejected"
                        /\ mount'.error = "reason"
                        /\ mount'.kids = <<>>
               /\ last'.outcome \in {"string", "node", "array"}
                     => IF mount.replace
                        THEN /\ mount'.kids = <<>>
                             /\ mount'.pc = "returned" => mount'.placed = mount.attached
                        ELSE /\ mount'.pc = "returned"
                             /\ mount'.kids = <<"content">>]_vars

C28_Witness ==
    /\ last.op = "settle"
    /\ last.outcome = "string"
    /\ mount.pc = "returned"
    /\ ~mount.clear
    /\ ~mount.replace
    /\ mount.kids = <<"content">>
    /\ mount.calls = 2

-----------------------------------------------------------------------------
(* $c(selector).map(fn) and $c(selector).filter(fn) *)

\* the DOM element el as a JavaScript value
Element(el) == [kind |-> "element", id |-> el]

\* String(element): "[object HTMLElement]"
ObjectString ==
    <<"[", "o", "b", "j", "e", "c", "t", " ", "H", "T", "M", "L",
      "E", "l", "e", "m", "e", "n", "t", "]">>

\* String(v) for an element or a string
StringOf(v) == IF v.kind = "element" THEN ObjectString ELSE v.chars

RECURSIVE Join(_)
\* String(array): the items as strings, joined by ","
Join(items) ==
    IF items = <<>> THEN <<>>
    ELSE IF Len(items) = 1 THEN StringOf(items[1])
    ELSE StringOf(items[1]) \o <<",">> \o Join(Tail(items))

\* the selectors of the model as strings of characters
TypeSelectors == {<<"a">>, <<"b">>, <<"c">>, <<"d">>}

\* querySelectorAll(chars) throws a SyntaxError: the selector is empty, or one
\* selector of the comma-separated list is not a type selector of the model
SyntaxError(chars) ==
    \E i \in 1..Len(Split(chars, ",")) : Split(chars, ",")[i] \notin TypeSelectors

\* a string of one character as a selector of the model
Char(chars) == chars[1]

\* the elements a selector list matches: each selector matches the first n
\* elements of the document, for its own n
MatchAll(chars, d) ==
    LET parts == Split(chars, ",")
        Count(i) == QuerySelectorAll(Char(parts[i]), d)
        n == CHOOSE m \in {Count(i) : i \in 1..Len(parts)} :
                \A i \in 1..Len(parts) : Count(i) <= m
    IN Nodes(n)

\* $c(array): `let nodes = $(selector, true)` hands the array to
\* querySelectorAll, which converts it to a string
FromArray(items, d) ==
    IF SyntaxError(Join(items))
    THEN [threw |-> TRUE, nodes |-> <<>>]
    ELSE [threw |-> FALSE,
          nodes |-> [i \in 1..Len(MatchAll(Join(items), d)) |->
                        Element(MatchAll(Join(items), d)[i])]]

\* nodes.filter((el, i) => fn(el, i)), fn being truthy on the elements of keep
ArrayFilter(nodes, keep) ==
    SelectSeq([i \in 1..Len(nodes) |-> Element(nodes[i])], LAMBDA v : v.id \in keep)

\* nodes.map((el, i) => fn(el, i)).filter(Boolean)
ArrayMap(nodes, fn) ==
    SelectSeq([i \in 1..Len(nodes) |-> fn[nodes[i]]], LAMBDA v : v.kind # "null")

\* a call of a chainable's method that returns a chainable: no write is made
Derive(name, query, expected) ==
    /\ LET r == FromArray(expected, dom)
       IN last' = [op |-> name, query |-> query, expected |-> expected,
                   threw |-> r.threw, nodes |-> r.nodes]
    /\ UNCHANGED <<frames, doc>>
    /\ UNCHANGED <<routes, defaultRoute, initialized, hashListeners, readyListeners,
                   readyState, hash, hashEvents>>
    /\ UNCHANGED cacheVars
    /\ UNCHANGED readyVars
    /\ UNCHANGED wrapVars
    /\ UNCHANGED appVars

\* $c(query).filter(fn)
DoFilter(query, keep) ==
    Derive("filter", query, ArrayFilter(Nodes(QuerySelectorAll(query, dom)), keep))

\* $c(query).map(fn)
DoMap(query, fn) ==
    Derive("map", query, ArrayMap(Nodes(QuerySelectorAll(query, dom)), fn))

\* what fn returns for element el: the element, a string, or nothing
MapResults(el) == {Element(el), Str(<<"a">>), Null}

NextChainable ==
    \/ \E q \in ObservedSelectors, keep \in SUBSET Elements : DoFilter(q, keep)
    \/ \E q \in ObservedSelectors : \E r1 \in MapResults(1), r2 \in MapResults(2) :
          DoMap(q, [el \in Elements |-> IF el = 1 THEN r1 ELSE r2])
    \/ \E q \in {"b", "c"} : DoChain(q, Undefined, "addClass", Str(K), Undefined)
    \/ FrameWrite

SpecChainable == InitLoaded /\ [][NextChainable]_vars

\* C29 as stated: $c(selector).filter(fn) returns a chainable whose get() is
\* exactly the nodes for which fn is truthy, in the original order; .map(fn)
\* returns a chainable over the truthy results of fn; neither throws.
C29_MapAndFilter ==
    last.op \in {"filter", "map"}
        => /\ ~last.threw
           /\ last.nodes = last.expected

-----------------------------------------------------------------------------
(* The index argument of $_ and $s *)

\* a call of $_ or $s whose query matches n elements, with the index it was given
Targeted(r, helper, n, index) ==
    /\ frames' = RequestFrame(frames, r.writes)
    /\ Len(frames') <= MaxPending
    /\ last' = [op |-> "indexed", helper |-> helper, threw |-> r.threw,
                matches |-> n, index |-> index]
    /\ UNCHANGED doc
    /\ UNCHANGED <<routes, defaultRoute, initialized, hashListeners, readyListeners,
                   readyState, hash, hashEvents>>
    /\ UNCHANGED cacheVars
    /\ UNCHANGED readyVars
    /\ UNCHANGED wrapVars
    /\ UNCHANGED appVars

\* $_(query, {addClasses, setAttrs, index})
DoUpdateAt(query, index) ==
    Targeted(Update(QuerySelectorAll(query, dom),
                    Opt([NoOptions EXCEPT !.addClasses = Str(K),
                                          !.setAttrs = Obj(<<<<T, Str(<<"1">>)>>>>),
                                          !.index = index])),
             "$_", QuerySelectorAll(query, dom), index)

\* $s(query, styles, index)
DoStyleAt(query, index) ==
    Targeted(Style(QuerySelectorAll(query, dom), Str(COLOR), index),
             "$s", QuerySelectorAll(query, dom), index)

\* the index arguments: none, and the integers around the range of two elements
Indexes == {Undefined} \cup {Index(i) : i \in -1..2}

NextIndex ==
    \/ \E q \in ObservedSelectors, index \in Indexes : DoUpdateAt(q, index)
    \/ \E q \in ObservedSelectors, index \in Indexes : DoStyleAt(q, index)
    \/ FrameWrite

SpecIndex == InitLoaded /\ [][NextIndex]_vars

\* the callbacks a step has handed to n
Scheduled == SubSeq(frames', Len(frames) + 1, Len(frames'))

\* C30: for $_ and $s: when the selector matches nothing the call is a silent
\* no-op, even with an index; when it matches k >= 1 elements, an index outside
\* 0..k-1 throws and schedules no DOM write, and an index inside the range
\* schedules writes for the element at that index and for no other.
C30_IndexHandling ==
    [][last'.op = "indexed"
        => LET k == last'.matches
               index == last'.index
           IN /\ k = 0 => ~last'.threw /\ frames' = frames
              /\ (k >= 1 /\ index.kind = "number" /\ index.value \notin 0..(k - 1))
                    => last'.threw /\ frames' = frames
              /\ (k >= 1 /\ index.kind = "number" /\ index.value \in 0..(k - 1))
                    => /\ ~last'.threw
                       /\ Scheduled # <<>>
                       /\ \A i \in 1..Len(Scheduled) :
                             Scheduled[i].el = index.value + 1]_vars

C30_Witness ==
    /\ last.op = "indexed"
    /\ last.helper = "$s"
    /\ last.matches = 2
    /\ last.index = Index(1)
    /\ ~last.threw
    /\ Len(frames) = 1
    /\ frames[1].el = 2

-----------------------------------------------------------------------------
(* WSClient: further properties *)

\* C31 as stated: whenever a connection, initial or reconnection, opens,
\* retryCount returns to 0, so that a later drop is again followed by up to
\* reconnectRetries automatic reconnection attempts.
C31_BudgetRestoredOnOpen ==
    [][last'.op = "open" => sock'.retryCount = 0]_vars

\* C36 as stated: after closeIntentionally() the client creates no new
\* WebSocket until reconnect() is called, whether or not a reconnect timer is
\* pending or a connection attempt is in progress at the time of the call.
C36_CloseIntentionallyIsFinal ==
    [][(sock.pc = "made" /\ sock.isClosedIntentionally
            /\ Len(sock'.sockets) > Len(sock.sockets))
        => last'.op = "reconnect"]_vars

\* the sockets that are connecting or open and have the handlers of
\* setupHandlers installed
Live ==
    {i \in 1..Len(sock.sockets) :
        sock.sockets[i].state \in {"connecting", "open"} /\ sock.sockets[i].set}

\* C37 as stated: at any time at most one WebSocket of a client is connecting
\* or open with the message handlers installed; one call of reconnect()
\* results in one new connection.
C37_SingleLiveConnection ==
    sock.pc = "made" => Cardinality(Live) <= 1

-----------------------------------------------------------------------------
(* RESTClient: timeouts *)

\* C39 as stated: timeouts are not retried: when the timeout timer aborts the
\* fetch of an attempt, RESTClient rejects with the error 'Timeout' at once,
\* without waiting for a retry delay and without another fetch, also when
\* attempts remain; a rejected call never fetches again.
C39_TimeoutsNotRetried ==
    [][/\ (last'.op = "fetch" /\ last'.outcome = "abort")
            => /\ call'.pc = "rejected"
               /\ call'.error = Err("Timeout", call.attempt)
               /\ call'.fetches = call.fetches
       /\ (call.pc = "rejected" /\ call'.pc # "idle")
            => call'.fetches = call.fetches]_vars

\* a call rejected with 'Timeout' by an attempt that was not its last one
C39_Witness ==
    /\ call.pc = "rejected"
    /\ call.error.name = "Timeout"
    /\ call.lastErr.name = "AbortError"
    /\ call.attempt < MaxAttempts(call.retry)

-----------------------------------------------------------------------------
(* $ with and without the cache in a document that does not change *)

NextScope ==
    \/ \E sc \in Scopes, q \in ObservedSelectors, rl \in BOOLEAN, uc \in BOOLEAN :
          DoSelectIn(sc, q, rl, uc)
    \/ DoClearCache

SpecScope == Init /\ [][NextScope]_vars

\* what $(query, return_list, false, scope) returns in document d
Uncached(d, scope, query, return_list) ==
    SelectIn(<<>>, max, d, scope, query, return_list, FALSE).ret

\* C32 as stated: cache transparency: while the document is not mutated,
\* $(q, return_list, true, scope) returns the same elements in the same shape
\* (null, one element or an array) as $(q, return_list, false, scope) would,
\* whatever cached calls for q were made before.
C32_CacheTransparency ==
    (last.op = "$" /\ last.useCache)
        => last.ret = Uncached(dom, last.scope, last.key, last.return_list)

-----------------------------------------------------------------------------
(* $c: html, text, append and prepend *)

\* animation-frame writes of html, text, append and prepend in one run
MaxContentWrites == 3

\* the selector whose elements are rewritten
ContentSelector == "b"

ContentMethods == {"html", "text", "append", "prepend"}

\* if (_$.cache && _$.cache.has && _$.cache.has(selector)) _$.delete(selector)
invalidateCache(c, selector) ==
    IF MapHas(c, selector) THEN LRUCache_delete(c, selector) ELSE c

\* $c(selector).html(content), .text(content), .append(child), .prepend(child):
\* nodes = $(selector, true), one callback per node is handed to n, and the
\* cache entry of the selector is deleted before the method returns
DoContent(selector, method) ==
    LET r == Select(cache, max, dom, selector, TRUE, FALSE)
        writes == [i \in 1..r.ret.n |-> [kind |-> "content", el |-> i, w |-> method]]
        c2 == invalidateCache(r.cache, selector)
    IN /\ frames' = RequestFrame(frames, writes)
       /\ dom + Len(frames') <= MaxContentWrites
       /\ cache' = c2
       /\ recency' = Recency(recency, selector, FALSE, c2)
       /\ last' = [op |-> "content", key |-> selector, method |-> method,
                   removed |-> MapKeys(cache) \ MapKeys(c2)]
       /\ UNCHANGED <<max, dom, observing, records>>
       /\ UNCHANGED <<routes, defaultRoute, initialized, hashListeners, readyListeners,
                      readyState, hash, hashEvents>>
       /\ UNCHANGED extVars

\* the next animation frame: the oldest callback rewrites the children of its
\* element; the observer, when attached, is called back at the microtask
\* checkpoint that ends the frame callback
FrameContent ==
    /\ frames # <<>>
    /\ Head(frames).kind = "content"
    /\ frames' = Tail(frames)
    /\ dom' = dom + 1
    /\ LET c2 == IF observing THEN observerCallback(cache) ELSE cache
       IN /\ cache' = c2
          /\ recency' = Recency(recency, "", FALSE, c2)
          /\ last' = [op |-> "content-write", el |-> Head(frames).el,
                      removed |-> MapKeys(cache) \ MapKeys(c2)]
    /\ UNCHANGED <<max, observing, records>>
    /\ UNCHANGED <<routes, defaultRoute, initialized, hashListeners, readyListeners,
                   readyState, hash, hashEvents>>
    /\ UNCHANGED extVars

NextContent ==
    \/ \E method \in ContentMethods : DoContent(ContentSelector, method)
    \/ FrameContent
    \/ \E q \in {"a", ContentSelector}, rl \in BOOLEAN, uc \in BOOLEAN : DoSelect(q, rl, uc)

SpecContent == Init /\ [][NextContent]_vars

\* C33 as stated: once a frame write of $c(sel).html, .text, .append or
\* .prepend has been applied, no cached lookup of sel returns a node list
\* captured before that write, with or without an observer attached and also
\* when a cached lookup of sel ran between the call and the frame.
C33_ContentWritesAndCache ==
    (last.op = "$" /\ last.useCache /\ last.hit /\ last.key = ContentSelector)
        => last.ret.ver = dom

-----------------------------------------------------------------------------
(* $h: the default handler alone, and the first dispatch *)

\* C34 as stated: with a default handler registered by $h(fn) and no pattern
\* route, a hashchange event, and the ready event of a document that was
\* loading, still dispatches and schedules the default handler.
C34_DefaultHandlerAlone ==
    [][(/\ last'.op \in {"hashchange", "ready"}
        /\ defaultRoute # Undefined
        /\ RouteList(routes) = <<>>)
           => /\ Len(last'.scheduled) = 1
              /\ last'.scheduled[1].kind = "default"]_vars

\* the last call was the first registration of a pattern route
FirstRegistration ==
    /\ last.op = "$h" /\ last.route = "string" /\ ~last.threw /\ ~last.known
    /\ Len(RouteList(routes)) = 1

\* C35 as stated: a route or default handler registered in the same
\* synchronous turn as the first route takes part in the initial dispatch:
\* what that dispatch schedules is what handleHash schedules with all of them,
\* in a document that is still loading (the dispatch waits for the ready
\* event) and in one that is interactive or complete (the dispatch is made
\* inside the first registration).
C35_InitialDispatchSeesAllRoutes ==
    [][/\ (last'.op = "ready" /\ initialized)
            => last'.scheduled = handleHash(RouteList(routes), defaultRoute, hash)
       /\ (FirstRegistration /\ ReadyNow(readyState)
               /\ last'.op = "$h" /\ ~last'.threw)
            => last.scheduled = handleHash(RouteList(routes'), defaultRoute', hash')
      ]_vars

-----------------------------------------------------------------------------
(* $mount: calls on one slot that overlap *)

\* the nodes that the content of call number k puts into the slot
ContentOf(k) ==
    CASE k = 1 -> "content1" [] k = 2 -> "content2" [] k = 3 -> "content3"
      [] OTHER -> "content"

Inserts(content) == content \in {"string", "node", "array"}

\* call k has returned after appending its content to the slot
Noted(m, k, content) ==
    IF m.pc = "returned" /\ Inserts(content)
    THEN [m EXCEPT !.inserted = @ \cup {k}]
    ELSE m

\* $mount(layoutName, slotName, content, {clear}) while earlier calls on the
\* slot may still await their promises: up to the await, or to the return
\* when content is not a promise; mount.pc is the position of this call and
\* mount.waiting holds the calls that await
MountOver(content, clear) ==
    /\ mount.calls < MaxMounts
    /\ LET k == mount.calls + 1
           m == [mount EXCEPT !.clear = clear, !.replace = FALSE, !.calls = k,
                              !.error = "", !.placed = FALSE,
                              !.overlap = @ \/ mount.waiting # <<>>]
       IN mount' = IF content = "promise"
                   THEN [showPreloader(m) EXCEPT
                            !.pc = "awaiting",
                            !.waiting = Append(@, [id |-> k, clear |-> clear])]
                   ELSE Noted(InsertAs(m, content, ContentOf(k)), k, content)
    /\ last' = [op |-> "$mount", content |-> content, id |-> mount.calls + 1]
    /\ UNCHANGED <<coreVars, cfgVars, netVars>>

\* the promise of the i-th waiting call settles and that call resumes: its
\* finally block hides the preloader, then a rejection leaves $mount and a
\* value is inserted with the options of that call
SettleOver(i, outcome) ==
    /\ i \in 1..Len(mount.waiting)
    /\ LET w == mount.waiting[i]
           m == [hidePreloader(mount) EXCEPT
                    !.clear = w.clear, !.replace = FALSE, !.error = "",
                    !.placed = FALSE,
                    !.waiting = SubSeq(@, 1, i - 1) \o SubSeq(@, i + 1, Len(@))]
       IN /\ mount' = IF outcome = "reject"
                      THEN [m EXCEPT !.pc = "rejected", !.error = "reason"]
                      ELSE Noted(InsertAs(m, outcome, ContentOf(w.id)), w.id, outcome)
          /\ last' = [op |-> "settle", outcome |-> outcome, id |-> w.id,
                      clear |-> w.clear]
    /\ UNCHANGED <<coreVars, cfgVars, netVars>>

NextOverlap ==
    \/ \E c \in Contents, clear \in BOOLEAN : MountOver(c, clear)
    \/ \E i \in 1..MaxMounts, o \in Settlements : SettleOver(i, o)

SpecOverlap == InitLoaded /\ [][NextOverlap]_vars

InSlot(m, item) == \E j \in 1..Len(m.kids) : m.kids[j] = item

\* C38 as stated: when calls of $mount on one slot overlap and every call has
\* returned, the slot holds the content of the call issued last if that call
\* inserted content, whichever promise settled first; and the preloader
\* removal of a settling call erases no content that another call mounted
\* (content goes only when the settling call itself inserts with clear).
C38_OverlappingMounts ==
    /\ []((mount.overlap /\ mount.waiting = <<>> /\ mount.calls \in mount.inserted)
            => InSlot(mount, ContentOf(mount.calls)))
    /\ [][(last'.op = "settle" /\ ~(last'.clear /\ Inserts(last'.outcome)))
            => \A k \in mount.inserted \ {last'.id} :
                  InSlot(mount, ContentOf(k)) => InSlot(mount', ContentOf(k))]_vars
=============================================================================
